---------------------------- MODULE Spec2Model ----------------------------
(***************************************************************************)
(* Model of the typapp document analyzer                                   *)
(* (server/services/documentAnalyzer.js).                                  *)
(*                                                                         *)
(* A text is a sequence of characters.  A character is a one-letter string *)
(* for ASCII ("a", "I", " ", ".") and a short ASCII name for a non-ASCII   *)
(* letter ("s-cedilla", "i-dotless", "eszett", ...), upper-case letters    *)
(* having upper-case names ("S-CEDILLA").  Every string operation of the   *)
(* analyzer (toLowerCase, split, includes, the regular expressions) is     *)
(* computed on these character sequences.                                  *)
(***************************************************************************)
EXTENDS Naturals, Sequences, FiniteSets

VARIABLES
    document,   \* the {title, content} passed to analyzeDocument
    pc,         \* where the call is
    language,   \* analyzeDocument's language
    scores,     \* detectLanguage's scores object
    analysis,   \* analyzeDocument's analysis object
    languagePatterns,   \* the server's analyzer instance: this.languagePatterns
    handlers,           \* the server's request handlers and their calls
    formatted,          \* what formatAnalysisResult has returned
    app,                \* the state of the client's App component
    calls,              \* the calls of App's async functions in flight
    uploader,           \* the state of the client's FileUploader component
    uploadServer,       \* the uploads directory and the upload requests
    drive               \* the document selection of the client's App

\* The variables of one call of analyzeDocument, and those of the server.
callVars == <<document, pc, language, scores, analysis>>

serverVars == <<languagePatterns, handlers>>

\* The variables of the client's App component, of the file upload and of
\* the document selection.
appVars == <<app, calls>>

uploadVars == <<uploader, uploadServer>>

\* The variables outside the analyzer and its two endpoints.
otherVars == <<formatted, app, calls, uploader, uploadServer, drive>>

vars == <<document, pc, language, scores, analysis, languagePatterns, handlers,
          formatted, app, calls, uploader, uploadServer, drive>>

-----------------------------------------------------------------------------
(* Characters and character classes                                        *)

AsciiLower ==
    {"a","b","c","d","e","f","g","h","i","j","k","l","m",
     "n","o","p","q","r","s","t","u","v","w","x","y","z"}

AsciiUpper ==
    {"A","B","C","D","E","F","G","H","I","J","K","L","M",
     "N","O","P","Q","R","S","T","U","V","W","X","Y","Z"}

Digits == {"0","1","2","3","4","5","6","7","8","9"}

\* \s of a JavaScript regular expression (the whitespace of the alphabet).
IsSpace(c) == c = " "

\* \w of a JavaScript regular expression without the u flag: [A-Za-z0-9_].
IsWordChar(c) == c \in AsciiLower \cup AsciiUpper \cup Digits \cup {"_"}

\* The pairs (upper-case letter, lower-case letter) of the alphabet whose
\* case mapping is one character to one character in both directions.
CasePairs ==
    {<<"A","a">>, <<"B","b">>, <<"C","c">>, <<"D","d">>, <<"E","e">>,
     <<"F","f">>, <<"G","g">>, <<"H","h">>, <<"I","i">>, <<"J","j">>,
     <<"K","k">>, <<"L","l">>, <<"M","m">>, <<"N","n">>, <<"O","o">>,
     <<"P","p">>, <<"Q","q">>, <<"R","r">>, <<"S","s">>, <<"T","t">>,
     <<"U","u">>, <<"V","v">>, <<"W","w">>, <<"X","x">>, <<"Y","y">>,
     <<"Z","z">>,
     <<"C-CEDILLA","c-cedilla">>, <<"G-BREVE","g-breve">>,
     <<"O-UML","o-uml">>, <<"S-CEDILLA","s-cedilla">>, <<"U-UML","u-uml">>,
     <<"A-UML","a-uml">>, <<"A-GRAVE","a-grave">>, <<"A-CIRC","a-circ">>,
     <<"E-ACUTE","e-acute">>, <<"E-GRAVE","e-grave">>, <<"E-CIRC","e-circ">>,
     <<"E-UML","e-uml">>, <<"I-UML","i-uml">>, <<"I-CIRC","i-circ">>,
     <<"O-CIRC","o-circ">>, <<"U-GRAVE","u-grave">>, <<"U-CIRC","u-circ">>,
     <<"Y-UML","y-uml">>}

\* The lower case of each upper-case letter of CasePairs.
LowerOf ==
    [c \in {p[1] : p \in CasePairs} |-> (CHOOSE p \in CasePairs : p[1] = c)[2]]

\* String.prototype.toLowerCase on one character.  It is locale independent:
\* "I" becomes "i" (never the Turkish dotless i), the dotted capital I
\* becomes "i" followed by a combining dot, and a character without a
\* lower-case form (a lower-case letter, eszett, a space) is kept.
LowerChar(c) ==
    IF c \in DOMAIN LowerOf THEN <<LowerOf[c]>>
    ELSE IF c = "I-DOTTED" THEN <<"i", "combining-dot">> ELSE <<c>>

\* The lower case of the characters lo..hi of s, one after the other (the
\* range is halved to keep the recursion shallow).
RECURSIVE LowerRange(_, _, _)
LowerRange(s, lo, hi) ==
    IF lo > hi THEN <<>>
    ELSE IF lo = hi THEN LowerChar(s[lo])
    ELSE LowerRange(s, lo, (lo + hi) \div 2)
         \o LowerRange(s, (lo + hi) \div 2 + 1, hi)

toLowerCase(s) == LowerRange(s, 1, Len(s))

\* The upper case of each lower-case letter of CasePairs.
UpperOf ==
    [c \in {p[2] : p \in CasePairs} |-> (CHOOSE p \in CasePairs : p[2] = c)[1]]

\* Canonicalize of a regular expression with the i flag and without the u
\* flag (ECMAScript 21.2.2.8.2): the character's upper case, unless that is
\* not a single character (eszett) or maps a non-ASCII character to an ASCII
\* one (dotless i, whose upper case is "I").
Canonicalize(c) == IF c \in DOMAIN UpperOf THEN UpperOf[c] ELSE c

\* Two characters match under the i flag.
SameCharIgnoreCase(a, b) == Canonicalize(a) = Canonicalize(b)

\* /[...]/ character sets of detectLanguage.
turkishChars ==
    {"c-cedilla", "g-breve", "i-dotless", "o-uml", "s-cedilla", "u-uml",
     "C-CEDILLA", "G-BREVE", "I", "I-DOTTED", "O-UML", "S-CEDILLA", "U-UML"}

germanChars ==
    {"a-uml", "o-uml", "u-uml", "eszett", "A-UML", "O-UML", "U-UML"}

frenchChars ==
    {"a-grave", "a-circ", "a-uml", "e-acute", "e-grave", "e-circ", "e-uml",
     "i-uml", "i-circ", "o-circ", "o-uml", "u-grave", "u-circ", "u-uml",
     "y-uml", "c-cedilla",
     "A-GRAVE", "A-CIRC", "A-UML", "E-ACUTE", "E-GRAVE", "E-CIRC", "E-UML",
     "I-UML", "I-CIRC", "O-CIRC", "O-UML", "U-GRAVE", "U-CIRC", "U-UML",
     "Y-UML", "C-CEDILLA"}

-----------------------------------------------------------------------------
(* Strings                                                                 *)

\* Array.prototype.includes on an array of strings.
Includes(arr, x) == \E i \in 1..Len(arr) : arr[i] = x

\* String.prototype.split(/\s+/): the pieces between the maximal runs of
\* whitespace.  The empty string gives one empty piece; leading or trailing
\* whitespace gives an empty first or last piece.
\* The first position from i on that holds whitespace, Len(s) + 1 if none.
NextSpace(s, i) ==
    CHOOSE q \in i..(Len(s) + 1) :
        /\ q = Len(s) + 1 \/ IsSpace(s[q])
        /\ \A k \in i..(q - 1) : ~IsSpace(s[k])

\* The first position from q on that holds no whitespace, Len(s) + 1 if none.
AfterSpaces(s, q) ==
    CHOOSE r \in q..(Len(s) + 1) :
        /\ r = Len(s) + 1 \/ ~IsSpace(s[r])
        /\ \A k \in q..(r - 1) : IsSpace(s[k])

\* The pieces from position i on: the piece up to the next separator (a
\* maximal run of whitespace), then the pieces after the separator.
RECURSIVE SplitFrom(_, _)
SplitFrom(s, i) ==
    LET q == NextSpace(s, i)
    IN  IF q > Len(s) THEN <<SubSeq(s, i, Len(s))>>
        ELSE <<SubSeq(s, i, q - 1)>> \o SplitFrom(s, AfterSpaces(s, q))

SplitWhitespace(s) == SplitFrom(s, 1)

\* (text.match(re) || []).length for a character-set regular expression
\* WITHOUT the g flag: match returns the first match only (an array of one
\* element, there being no capture group), or null.
MatchLength(text, charSet) ==
    IF \E i \in 1..Len(text) : text[i] \in charSet THEN 1 ELSE 0

\* words.filter(word => list.includes(word)).length
RECURSIVE CountIn(_, _)
CountIn(words, list) ==
    IF words = <<>> THEN 0
    ELSE (IF Includes(list, Head(words)) THEN 1 ELSE 0) + CountIn(Tail(words), list)

-----------------------------------------------------------------------------
(* detectLanguage                                                          *)

\* Common words for each language.
turkishWords ==
    << <<"v","e">>, <<"b","i","r">>, <<"b","u">>, <<"d","a">>, <<"d","e">>,
       <<"i","l","e">>, <<"i","c-cedilla","i","n">>, <<"o","l","a","n">>,
       <<"o","l","a","r","a","k">> >>

germanWords ==
    << <<"u","n","d">>, <<"d","e","r">>, <<"d","i","e">>, <<"d","a","s">>,
       <<"i","n">>, <<"d","e","n">>, <<"v","o","n">>, <<"m","i","t">>,
       <<"z","u">>, <<"a","u","f">> >>

frenchWords ==
    << <<"e","t">>, <<"l","e">>, <<"l","a">>, <<"l","e","s">>, <<"d","e">>,
       <<"d","u">>, <<"d","e","s">>, <<"u","n">>, <<"u","n","e">>,
       <<"p","o","u","r">> >>

\* Object.keys(scores): the keys in the order the object literal declares them.
ScoreKeys == <<"turkish", "german", "french", "english">>

\* Mutant of Scores: the diacritic count not doubled.
ScoresUnweighted(text) ==
    LET words == SplitWhitespace(toLowerCase(text))
    IN  [turkish |-> MatchLength(text, turkishChars) + CountIn(words, turkishWords),
         german  |-> MatchLength(text, germanChars) + CountIn(words, germanWords),
         french  |-> MatchLength(text, frenchChars) + CountIn(words, frenchWords),
         english |-> 0]

\* The scores object of detectLanguage.
Scores(text) ==
    LET words == SplitWhitespace(toLowerCase(text))
    IN  [turkish |-> MatchLength(text, turkishChars) * 2 + CountIn(words, turkishWords),
         german  |-> MatchLength(text, germanChars) * 2 + CountIn(words, germanWords),
         french  |-> MatchLength(text, frenchChars) * 2 + CountIn(words, frenchWords),
         english |-> 0]

\* keys.reduce((a, b) => scores[a] > scores[b] ? a : b), no initial value:
\* the accumulator starts as the first key.
RECURSIVE ReduceFrom(_, _, _)
ReduceFrom(keys, a, sc) ==
    IF keys = <<>> THEN a
    ELSE LET b == Head(keys)
         IN  ReduceFrom(Tail(keys), IF sc[a] > sc[b] THEN a ELSE b, sc)

\* Mutant of ReduceHighest: the comparison written >=, so that a tie keeps
\* the earlier key.
RECURSIVE ReduceFromKeepFirst(_, _, _)
ReduceFromKeepFirst(keys, a, sc) ==
    IF keys = <<>> THEN a
    ELSE LET b == Head(keys)
         IN  ReduceFromKeepFirst(Tail(keys), IF sc[a] >= sc[b] THEN a ELSE b, sc)

ReduceHighestKeepFirst(sc) ==
    ReduceFromKeepFirst(Tail(ScoreKeys), Head(ScoreKeys), sc)

ReduceHighest(sc) == ReduceFrom(Tail(ScoreKeys), Head(ScoreKeys), sc)

\* Object.values(scores).every(score => score === 0)
EveryScoreZero(sc) == \A i \in 1..Len(ScoreKeys) : sc[ScoreKeys[i]] = 0

\* Mutant of detectLanguage: the server's simplified detection in its place
\* (the first of the three character sets that occurs decides, and the
\* names are capitalised).
detectLanguageSimplified(text) ==
    IF MatchLength(text, turkishChars) = 1 THEN "Turkish"
    ELSE IF MatchLength(text, germanChars) = 1 THEN "German"
    ELSE IF MatchLength(text, frenchChars) = 1 THEN "French"
    ELSE "English"

detectLanguage(text) ==
    IF EveryScoreZero(Scores(text)) THEN "english" ELSE ReduceHighest(Scores(text))

-----------------------------------------------------------------------------
(* languagePatterns: the spelling tables                                   *)

\* Object.entries of an object literal written as the given (key, value)
\* pairs: a key written twice keeps the place of its first occurrence and
\* the value of its last one.
RECURSIVE ObjectEntries(_)
ObjectEntries(pairs) ==
    IF pairs = <<>> THEN <<>>
    ELSE LET n    == Len(pairs)
             last == pairs[n]
             init == ObjectEntries(SubSeq(pairs, 1, n - 1))
         IN  IF \E i \in 1..Len(init) : init[i][1] = last[1]
               THEN [i \in 1..Len(init) |->
                       IF init[i][1] = last[1] THEN last ELSE init[i]]
               ELSE Append(init, last)

\* languagePatterns.turkish.spellingPatterns, as written.
turkishSpelling ==
    <<
       << <<"y","a","p","i-dotless","c","a","z">>,
          <<"y","a","p","a","c","a","g-breve","i-dotless","z">> >>,
       << <<"g","e","r","c","e","k","l","e","s-cedilla","i","c","e","k">>,
          <<"g","e","r","c-cedilla","e","k","l","e","s-cedilla","e","c","e","k">> >>,
       << <<"k","a","t","i-dotless","l","c","a","k","m","i-dotless","s","i-dotless","n">>,
          <<"k","a","t","i-dotless","l","a","c","a","k"," ","m","i-dotless","s","i-dotless","n">> >>,
       << <<"g","e","l","i","c","e","k">>,
          <<"g","e","l","e","c","e","k">> >>,
       << <<"g","i","d","e","c","e","k">>,
          <<"g","i","d","e","c","e","k">> >>,
       << <<"o","l","a","c","a","k">>,
          <<"o","l","a","c","a","k">> >>
    >>

\* languagePatterns.english.spellingPatterns, as written.
englishSpelling ==
    <<
       << <<"r","e","c","i","e","v","e">>,
          <<"r","e","c","e","i","v","e">> >>,
       << <<"s","e","p","e","r","a","t","e">>,
          <<"s","e","p","a","r","a","t","e">> >>,
       << <<"o","c","c","u","r","e","d">>,
          <<"o","c","c","u","r","r","e","d">> >>,
       << <<"b","e","g","i","n","i","n","g">>,
          <<"b","e","g","i","n","n","i","n","g">> >>,
       << <<"d","e","f","i","n","a","t","e","l","y">>,
          <<"d","e","f","i","n","i","t","e","l","y">> >>
    >>

\* languagePatterns.german.spellingPatterns, as written (one key twice).
germanSpelling ==
    <<
       << <<"d","a","s","s">>,
          <<"d","a","s","s">> >>,
       << <<"d","a","eszett">>,
          <<"d","a","s","s">> >>,
       << <<"m","u","eszett">>,
          <<"m","u","s","s">> >>,
       << <<"d","a","eszett">>,
          <<"d","a","s","s">> >>
    >>

\* languagePatterns.french.spellingPatterns, as written.
frenchSpelling ==
    <<
       << <<"a","c","c","e","u","i","l","l","i","r">>,
          <<"a","c","c","u","e","i","l","l","i","r">> >>,
       << <<"a","p","p","a","r","t","e","m","e","n","t">>,
          <<"a","p","p","a","r","t","e","m","e","n","t">> >>,
       << <<"b","i","e","n","v","e","n","u">>,
          <<"b","i","e","n","v","e","n","u","e">> >>
    >>

\* this.languagePatterns[language]?.spellingPatterns || {}, as written.
spellingLiteral(lang) ==
    CASE lang = "turkish" -> turkishSpelling
      [] lang = "english" -> englishSpelling
      [] lang = "german"  -> germanSpelling
      [] lang = "french"  -> frenchSpelling
      [] OTHER            -> <<>>

\* Object.entries(patterns)
spellingPatterns(lang) == ObjectEntries(spellingLiteral(lang))

\* x is a substring of s.
IsSubstring(x, s) ==
    \E i \in 1..(Len(s) - Len(x) + 1) : SubSeq(s, i, i + Len(x) - 1) = x

\* Mutant of SpellingLoop: the receiver and the argument of includes
\* swapped, incorrect.includes(word) for some word.
RECURSIVE SpellingLoopSwapped(_, _)
SpellingLoopSwapped(entries, words) ==
    IF entries = <<>> THEN <<>>
    ELSE LET incorrect == Head(entries)[1]
             correct   == Head(entries)[2]
         IN  (IF \E w \in 1..Len(words) :
                    IsSubstring(words[w], toLowerCase(incorrect))
                THEN << [original |-> incorrect, corrected |-> correct] >>
                ELSE <<>>)
             \o SpellingLoopSwapped(Tail(entries), words)

\* analyzeSpelling's loop over Object.entries(patterns): an entry whose
\* lower-cased key is one of the words gives one finding, in entry order.
RECURSIVE SpellingLoop(_, _)
SpellingLoop(entries, words) ==
    IF entries = <<>> THEN <<>>
    ELSE LET incorrect == Head(entries)[1]
             correct   == Head(entries)[2]
         IN  (IF Includes(words, toLowerCase(incorrect))
                THEN << [original |-> incorrect, corrected |-> correct] >>
                ELSE <<>>)
             \o SpellingLoop(Tail(entries), words)

\* Mutant of SpellingFindings: the content split without being lower-cased.
SpellingFindingsCaseSensitive(content, lang) ==
    SpellingLoop(spellingPatterns(lang), SplitWhitespace(content))

\* Mutant of SpellingFindings: one finding for every word that is a
\* misspelling of the table (a count, not a membership test).
RECURSIVE PerOccurrenceLoop(_, _)
PerOccurrenceLoop(entries, words) ==
    IF entries = <<>> THEN <<>>
    ELSE LET hits == SelectSeq(words, LAMBDA w : w = toLowerCase(Head(entries)[1]))
         IN  [k \in 1..Len(hits) |->
                [original |-> Head(entries)[1], corrected |-> Head(entries)[2]]]
             \o PerOccurrenceLoop(Tail(entries), words)

SpellingFindingsPerOccurrence(content, lang) ==
    PerOccurrenceLoop(spellingPatterns(lang), SplitWhitespace(toLowerCase(content)))

\* Mutant of SpellingFindings: the loop runs over the words of the text and
\* looks each one up in the table, so the findings come in text order.
RECURSIVE TextOrderLoop(_, _)
TextOrderLoop(words, entries) ==
    IF words = <<>> THEN <<>>
    ELSE LET hits == SelectSeq(entries, LAMBDA e : toLowerCase(e[1]) = Head(words))
             rest == TextOrderLoop(Tail(words), entries)
         IN  IF hits = <<>> THEN rest
             ELSE << [original |-> hits[1][1], corrected |-> hits[1][2]] >> \o rest

SpellingFindingsInTextOrder(content, lang) ==
    TextOrderLoop(SplitWhitespace(toLowerCase(content)), spellingPatterns(lang))

\* What analyzeSpelling pushes onto analysis.spellingErrors.
SpellingFindings(content, lang) ==
    SpellingLoop(spellingPatterns(lang), SplitWhitespace(toLowerCase(content)))

-----------------------------------------------------------------------------
(* Regular expressions of the grammar rules                                *)
(*                                                                         *)
(* Two shapes occur, both with the flags g and i:                          *)
(*   "suffix":  /(\w+)(alt1|alt2|...)(\s|$)/                               *)
(*   "word":    /\b(alt1|alt2)\b/                                          *)

\* The number of \w characters from position i on.
RECURSIVE WordRunLen(_, _)
WordRunLen(text, i) ==
    IF i > Len(text) \/ ~IsWordChar(text[i]) THEN 0 ELSE 1 + WordRunLen(text, i + 1)

\* The literal alt matches at position j, ignoring case.
AltMatchesAt(text, j, alt) ==
    /\ j + Len(alt) - 1 <= Len(text)
    /\ \A k \in 1..Len(alt) : SameCharIgnoreCase(text[j + k - 1], alt[k])

\* (\s|$) at position j: one whitespace character, else the end of the input.
\* The number of characters it takes, plus one; 0 when it does not match.
TailAt(text, j) ==
    IF j <= Len(text) /\ IsSpace(text[j]) THEN 2
    ELSE IF j = Len(text) + 1 THEN 1 ELSE 0

\* \b at position i: exactly one of text[i-1], text[i] is a \w character.
WordBoundary(text, i) ==
    (i > 1 /\ IsWordChar(text[i - 1])) # (i <= Len(text) /\ IsWordChar(text[i]))

\* The ways /(\w+)(alts)(\s|$)/ matches starting at i: <<n, a>> where \w+
\* takes n characters and the a-th alternative follows.
SuffixAttempts(text, i, alts) ==
    {at \in (1..WordRunLen(text, i)) \X (1..Len(alts)) :
        /\ AltMatchesAt(text, i + at[1], alts[at[2]])
        /\ TailAt(text, i + at[1] + Len(alts[at[2]])) > 0}

\* The ways /\b(alts)\b/ matches starting at i: the index of the alternative.
WordAttempts(text, i, alts) ==
    {a \in 1..Len(alts) :
        /\ WordBoundary(text, i)
        /\ AltMatchesAt(text, i, alts[a])
        /\ WordBoundary(text, i + Len(alts[a]))}

\* The rule matches starting at i.
HasMatchAt(text, i, rule) ==
    IF rule.kind = "suffix"
      THEN IsWordChar(text[i]) /\ SuffixAttempts(text, i, rule.alts) # {}
      ELSE WordBoundary(text, i) /\ WordAttempts(text, i, rule.alts) # {}

\* The match the backtracking matcher finds at i: \w+ is greedy (the longest
\* run first), the alternatives are tried left to right.
\* [start, stop, groups]: the match is text[start..stop].
MatchAt(text, i, rule) ==
    IF rule.kind = "suffix"
      THEN LET S    == SuffixAttempts(text, i, rule.alts)
               n    == CHOOSE n \in {at[1] : at \in S} :
                          \A at \in S : at[1] <= n
               a    == CHOOSE a \in {at[2] : at \in {x \in S : x[1] = n}} :
                          \A at \in {x \in S : x[1] = n} : a <= at[2]
               alen == Len(rule.alts[a])
               tail == TailAt(text, i + n + alen) - 1
           IN  [start  |-> i,
                stop   |-> i + n + alen + tail - 1,
                groups |-> << SubSeq(text, i, i + n - 1),
                              SubSeq(text, i + n, i + n + alen - 1),
                              SubSeq(text, i + n + alen, i + n + alen + tail - 1) >>]
      ELSE LET S == WordAttempts(text, i, rule.alts)
               a == CHOOSE a \in S : \A b \in S : a <= b
           IN  [start  |-> i,
                stop   |-> i + Len(rule.alts[a]) - 1,
                groups |-> << SubSeq(text, i, i + Len(rule.alts[a]) - 1) >>]

\* The matches from position pos on, starts being the positions where the
\* rule matches: the match at the first of them from pos on, then the
\* matches from where that match stopped.
RECURSIVE MatchesAmong(_, _, _, _)
MatchesAmong(text, rule, starts, pos) ==
    LET ahead == {i \in starts : i >= pos}
    IN  IF ahead = {} THEN <<>>
        ELSE LET m == MatchAt(text, CHOOSE i \in ahead : \A j \in ahead : i <= j,
                              rule)
             IN  <<m>> \o MatchesAmong(text, rule, starts, m.stop + 1)

\* The matches of a g-flagged rule, left to right from position pos: each
\* search starts where the previous match stopped.
MatchAllFrom(text, rule, pos) ==
    MatchesAmong(text, rule,
                 {i \in pos..Len(text) : HasMatchAt(text, i, rule)}, pos)

\* Mutant of MatchAll: the first match only, as if the rule had no g flag.
MatchFirstOnly(text, rule) ==
    LET all == MatchAllFrom(text, rule, 1)
    IN  IF all = <<>> THEN <<>> ELSE <<all[1]>>

\* content.match(pattern.pattern) with the g flag: every match (lastIndex is
\* reset to 0 first); the empty sequence stands for null.
MatchAll(text, rule) == MatchAllFrom(text, rule, 1)

\* The text a match is replaced by: the template '$1 $2$3' for a suffix
\* rule, the function of the English rule for a word rule.
Replacement(text, rule, m) ==
    IF rule.kind = "suffix"
      THEN m.groups[1] \o <<" ">> \o m.groups[2] \o m.groups[3]
      ELSE IF toLowerCase(SubSeq(text, m.start, m.stop)) = <<"i","t","s">>
             THEN <<"i","t","'","s">>
             ELSE <<"i","t","s">>

\* content.replace(pattern.pattern, pattern.replacement) with the g flag:
\* every match replaced, the text between the matches kept.
RECURSIVE ReplaceFrom(_, _, _, _)
ReplaceFrom(text, rule, ms, pos) ==
    IF ms = <<>> THEN SubSeq(text, pos, Len(text))
    ELSE LET m == Head(ms)
         IN  SubSeq(text, pos, m.start - 1) \o Replacement(text, rule, m)
             \o ReplaceFrom(text, rule, Tail(ms), m.stop + 1)

ReplaceAll(text, rule) == ReplaceFrom(text, rule, MatchAll(text, rule), 1)

-----------------------------------------------------------------------------
(* languagePatterns: the grammar rules (explanations in ASCII)             *)

turkishGrammar ==
    << [kind |-> "suffix",
        alts |-> << <<"m","i-dotless">>, <<"m","i">>, <<"m","u">>, <<"m","u-uml">> >>,
        explanation |-> "Soru eki ayri yazilmali"],
       [kind |-> "suffix",
        alts |-> << <<"d","a">>, <<"d","e">>, <<"t","a">>, <<"t","e">> >>,
        explanation |-> "Ek ayri yazilmali"] >>

englishGrammar ==
    << [kind |-> "word",
        alts |-> << <<"i","t","s">>, <<"i","t","'","s">> >>,
        explanation |-> "Check if possessive or contraction is intended"] >>

germanGrammar ==
    << [kind |-> "suffix",
        alts |-> << <<"n","i","c","h","t">>, <<"k","e","i","n">>, <<"k","e",
            "i","n","e">>, <<"k","e","i","n","e","n">> >>,
        explanation |-> "Negation word order check"] >>

frenchGrammar ==
    << [kind |-> "suffix",
        alts |-> << <<"p","a","s">>, <<"p","l","u","s">>, <<"j","a","m","a","i","s">> >>,
        explanation |-> "Negation word order check"] >>

\* this.languagePatterns[language]?.grammarPatterns || []
grammarPatterns(lang) ==
    CASE lang = "turkish" -> turkishGrammar
      [] lang = "english" -> englishGrammar
      [] lang = "german"  -> germanGrammar
      [] lang = "french"  -> frenchGrammar
      [] OTHER            -> <<>>

\* Mutant of RuleFindings: the corrected text of a finding is the rewriting
\* of its own match, not of the whole content.
RuleFindingsMatchOnly(content, rule) ==
    LET matches == MatchAll(content, rule)
    IN  [k \in 1..Len(matches) |->
           [original    |-> SubSeq(content, matches[k].start, matches[k].stop),
            explanation |-> rule.explanation,
            corrected   |-> Replacement(content, rule, matches[k])]]

\* matches.forEach(...) for one rule: one finding per match, each with the
\* whole content rewritten by this rule as its corrected text.
RuleFindings(content, rule) ==
    LET matches == MatchAll(content, rule)
    IN  IF matches = <<>> THEN <<>>
        ELSE LET corrected == ReplaceAll(content, rule)
             IN  [k \in 1..Len(matches) |->
                    [original    |-> SubSeq(content, matches[k].start, matches[k].stop),
                     explanation |-> rule.explanation,
                     corrected   |-> corrected]]

\* Mutant of GrammarLoop: each rule works on the text the rule before it
\* has corrected.
RECURSIVE GrammarLoopComposed(_, _)
GrammarLoopComposed(content, rules) ==
    IF rules = <<>> THEN <<>>
    ELSE LET found == RuleFindings(content, Head(rules))
             next  == IF found = <<>> THEN content ELSE found[1].corrected
         IN  found \o GrammarLoopComposed(next, Tail(rules))

\* for (const pattern of patterns): the findings of the rules, one rule
\* after the other, each rule on the content itself.
RECURSIVE GrammarLoop(_, _)
GrammarLoop(content, rules) ==
    IF rules = <<>> THEN <<>>
    ELSE RuleFindings(content, Head(rules)) \o GrammarLoop(content, Tail(rules))

\* What analyzeGrammar pushes onto analysis.grammarErrors.
GrammarFindings(content, lang) == GrammarLoop(content, grammarPatterns(lang))

-----------------------------------------------------------------------------
(* analyzeStyle: literal phrases with the flags g and i                    *)

turkishStyle ==
    << [pattern    |-> <<"g","e","n","e","l"," ","o","l","a","r","a","k"," ",
        "f","e","n","a"," ","s","a","y","i-dotless","l","m","a","z">>,
        suggestion |-> <<"g","e","n","e","l"," ","o","l","a","r","a","k"," ",
            "t","a","t","m","i","n"," ","e","d","i","c","i"," ","b","i","r",
            " ","s","o","n","u","c-cedilla"," ","s","u","n","u","y","o","r">>],
            
       [pattern    |-> <<"c-cedilla","o","k"," ","i","y","i"," ","c-cedilla",
           "u-uml","n","k","u-uml"," ","h","i-dotless","z","l","i-dotless"," ",
           "c-cedilla","a","l","i-dotless","s-cedilla","i-dotless","y","o",
           "r">>,
        suggestion |-> <<"c-cedilla","o","k"," ","i","y","i"," ","c-cedilla",
            "u-uml","n","k","u-uml"," ","k","u","l","l","a","n","i-dotless",
            "c","i-dotless"," ","s","o","r","u","n","l","a","r","i-dotless",
            "n","i-dotless"," ","h","i-dotless","z","l","i-dotless","c","a",
            " ","c-cedilla","o-uml","z","u-uml","y","o","r">>] >>

englishStyle ==
    << [pattern    |-> <<"v","e","r","y"," ","g","o","o","d"," ","b","e","c",
        "a","u","s","e"," ","i","t"," ","w","o","r","k","s"," ","f","a","s",
        "t">>,
        suggestion |-> <<"v","e","r","y"," ","g","o","o","d"," ","b","e","c",
            "a","u","s","e"," ","i","t"," ","e","f","f","i","c","i","e","n",
            "t","l","y"," ","s","o","l","v","e","s"," ","u","s","e","r"," ",
            "p","r","o","b","l","e","m","s">>],
       [pattern    |-> <<"n","o","t"," ","b","a","d"," ","o","v","e","r","a","l","l">>,
        suggestion |-> <<"s","a","t","i","s","f","a","c","t","o","r","y"," ",
            "o","v","e","r","a","l","l">>] >>

germanStyle ==
    << [pattern    |-> <<"s","e","h","r"," ","g","u","t"," ","w","e","i","l",
        " ","e","s"," ","s","c","h","n","e","l","l"," ","f","u","n","k","t",
        "i","o","n","i","e","r","t">>,
        suggestion |-> <<"s","e","h","r"," ","g","u","t"," ","w","e","i","l",
            " ","e","s"," ","B","e","n","u","t","z","e","r","p","r","o","b",
            "l","e","m","e"," ","e","f","f","i","z","i","e","n","t"," ","l",
            "o-uml","s","t">>] >>

frenchStyle ==
    << [pattern    |-> <<"t","r","e-grave","s"," ","b","i","e","n"," ","p","a",
        "r","c","e"," ","q","u","e"," ","c-cedilla","a"," ","m","a","r","c",
        "h","e"," ","v","i","t","e">>,
        suggestion |-> <<"t","r","e-grave","s"," ","b","i","e","n"," ","p","a",
            "r","c","e"," ","q","u","e"," ","c-cedilla","a"," ","r","e-acute",
            "s","o","u","t"," ","e","f","f","i","c","a","c","e","m","e","n",
            "t"," ","l","e","s"," ","p","r","o","b","l","e-grave","m","e","s",
            " ","d","e","s"," ","u","t","i","l","i","s","a","t","e","u","r",
            "s">>] >>

\* stylePatterns[language] || []
stylePatterns(lang) ==
    CASE lang = "turkish" -> turkishStyle
      [] lang = "english" -> englishStyle
      [] lang = "german"  -> germanStyle
      [] lang = "french"  -> frenchStyle
      [] OTHER            -> <<>>

\* The positions where the phrase occurs in the content, ignoring case.
PhraseStarts(content, phrase) ==
    {i \in 1..Len(content) : AltMatchesAt(content, i, phrase)}

\* Mutant of StyleLoop: the last occurrence of the phrase is reported.
RECURSIVE StyleLoopLastOccurrence(_, _)
StyleLoopLastOccurrence(content, rules) ==
    IF rules = <<>> THEN <<>>
    ELSE LET rule   == Head(rules)
             starts == PhraseStarts(content, rule.pattern)
             last   == CHOOSE i \in starts : \A j \in starts : j <= i
         IN  (IF starts # {}
                THEN << [original   |-> SubSeq(content, last,
                                               last + Len(rule.pattern) - 1),
                         suggestion |-> rule.suggestion] >>
                ELSE <<>>)
             \o StyleLoopLastOccurrence(content, Tail(rules))

\* One suggestion per rule whose phrase occurs: content.match(pattern)[0] is
\* the first occurrence, as the content spells it.
RECURSIVE StyleLoop(_, _)
StyleLoop(content, rules) ==
    IF rules = <<>> THEN <<>>
    ELSE LET rule   == Head(rules)
             starts == PhraseStarts(content, rule.pattern)
             first  == CHOOSE i \in starts : \A j \in starts : i <= j
         IN  (IF starts # {}
                THEN << [original   |-> SubSeq(content, first,
                                               first + Len(rule.pattern) - 1),
                         suggestion |-> rule.suggestion] >>
                ELSE <<>>)
             \o StyleLoop(content, Tail(rules))

\* Mutant of StyleFindings: the English phrases whatever the language.
StyleFindingsEnglish(content, lang) == StyleLoop(content, englishStyle)

\* What analyzeStyle pushes onto analysis.styleSuggestions.
StyleFindings(content, lang) == StyleLoop(content, stylePatterns(lang))

-----------------------------------------------------------------------------
(* Input documents                                                         *)

\* The most tokens of an input text.
MaxTokens == 3

\* Tokens for the language detector: the empty token (so that a text may
\* start or end with a space, or hold two spaces in a row), an ASCII capital
\* I, words with Turkish letters, common words of the three languages in
\* lower and upper case, a letter of all three diacritic sets, and a plain
\* ASCII word.
DetectVocabulary ==
    { <<>>,
      <<"I">>,
      <<"y","a","p","i-dotless","c","a","z">>,
      <<"i","c-cedilla","i","n">>,
      <<"u","n","d">>,
      <<"U","N","D">>,
      <<"e","t">>,
      <<"d","e">>,
      <<"o-uml">>,
      <<"s","e","p","e","r","a","t","e">> }

\* Tokens for the checkers: the empty token, misspellings in lower case, in
\* upper case and with punctuation attached, a plain word, and words the
\* Turkish, English, German and French grammar rules match (the Turkish,
\* the German and the French ones with a letter of the language).
CheckVocabulary ==
    { <<>>,
      <<"r","e","c","i","e","v","e">>,
      <<"s","e","p","e","r","a","t","e">>,
      <<"a","n","d">>,
      <<"S","E","P","E","R","A","T","E">>,
      <<"r","e","c","i","e","v","e",".">>,
      <<"g","e","l","m","i-dotless">>,
      <<"e","v","d","e">>,
      <<"i","t","s">>,
      <<"d","a","eszett">>,
      <<"x","k","e","i","n","e">>,
      <<"e-acute","n","e","p","a","s">> }

\* Fragments for the style checker: the phrases of the style rules (one of
\* them in upper case too), a word that makes a text German, and a fragment
\* with a misspelling and a grammar match.
PhraseVocabulary ==
    { <<"n","o","t"," ","b","a","d"," ","o","v","e","r","a","l","l">>,
      <<"N","O","T"," ","B","A","D"," ","O","V","E","R","A","L","L">>,
      <<"v","e","r","y"," ","g","o","o","d"," ","b","e","c","a","u",
        "s","e"," ","i","t"," ","w","o","r","k","s"," ","f","a","s",
        "t">>,
      <<"g","e","n","e","l"," ","o","l","a","r","a","k"," ","f","e",
        "n","a"," ","s","a","y","i-dotless","l","m","a","z">>,
      <<"c-cedilla","o","k"," ","i","y","i"," ","c-cedilla","u-uml",
        "n","k","u-uml"," ","h","i-dotless","z","l","i-dotless"," ",
        "c-cedilla","a","l","i-dotless","s-cedilla","i-dotless","y","o",
        "r">>,
      <<"t","r","e-grave","s"," ","b","i","e","n"," ","p","a","r","c",
        "e"," ","q","u","e"," ","c-cedilla","a"," ","m","a","r","c","h",
        "e"," ","v","i","t","e">>,
      <<"s","e","h","r"," ","g","u","t"," ","w","e","i","l"," ","e",
        "s"," ","s","c","h","n","e","l","l"," ","f","u","n","k","t","i",
        "o","n","i","e","r","t">>,
      <<"u","n","d">>,
      <<"r","e","c","i","e","v","e"," ","i","t","s">> }

\* The tokens joined by single spaces.
RECURSIVE Join(_)
Join(tokens) ==
    IF tokens = <<>> THEN <<>>
    ELSE IF Len(tokens) = 1 THEN tokens[1]
    ELSE tokens[1] \o <<" ">> \o Join(Tail(tokens))

Texts(vocabulary) ==
    {Join(ts) : ts \in UNION {[1..n -> vocabulary] : n \in 0..MaxTokens}}

Titles == {"Report"}

-----------------------------------------------------------------------------
(* analyzeDocument: one call, a step per await                             *)

Languages == {"turkish", "english", "german", "french"}

\* The analysis object before analyzeDocument has built one.
NoAnalysis ==
    [documentTitle |-> "", language |-> "", spellingErrors |-> <<>>,
     grammarErrors |-> <<>>, styleSuggestions |-> <<>>]

\* The scores object before detectLanguage has computed one.
NoScores == [turkish |-> 0, german |-> 0, french |-> 0, english |-> 0]

-----------------------------------------------------------------------------
(* The server: values, documents, the analyzer instance                    *)

\* The JavaScript values a request can carry as a title or a content: a
\* string, a number (chars is what String(value) gives), or undefined.
Undefined == [type |-> "undefined", chars |-> <<>>]

String(chars) == [type |-> "string", chars |-> chars]

Five == [type |-> "number", chars |-> <<"5">>]

\* String(value), as RegExp.prototype.test converts its argument.
ToString(value) ==
    IF value.type = "undefined"
      THEN <<"u","n","d","e","f","i","n","e","d">>
      ELSE value.chars

\* Mutant of Truthy: only undefined is refused.
TruthyUnlessUndefined(value) == value.type # "undefined"

\* !value is false: a non-empty string or a number other than 0.
Truthy(value) ==
    \/ value.type = "number"
    \/ value.type = "string" /\ value.chars # <<>>

\* An element of the documents array: null, or an object whose title and
\* content are values (undefined when the object has no such property).
NullDocument == [isNull |-> TRUE, title |-> Undefined, content |-> Undefined]

Object(title, content) == [isNull |-> FALSE, title |-> title, content |-> content]

\* The documents the clients send: null, an object without content, one
\* whose content is a number, and objects with a string content: empty,
\* without any match, with one rule matching twice, with two rules matching,
\* and with a misspelling, a grammar match and a style phrase.
Documents ==
    { NullDocument,
      Object(String(<<"A">>), Undefined),
      Object(String(<<"B">>), Five),
      Object(String(<<"C">>), String(<<>>)),
      Object(String(<<"D">>), String(<<"a","n","d">>)),
      Object(String(<<"E">>), String(<<"i","t","s"," ","i","t","s">>)),
      Object(String(<<"F">>),
             String(<<"g","e","l","m","i-dotless"," ","e","v","d","e">>)),
      Object(String(<<"G">>),
             String(<<"r","e","c","i","e","v","e"," ","i","t","s"," ",
                      "n","o","t"," ","b","a","d"," ",
                      "o","v","e","r","a","l","l">>)),
      Object(String(<<"H">>), String(<<"b","i","r"," ","e","v">>)) }

\* The most documents in the array of one POST /api/analyze.
MaxDocuments == 3

\* The most requests in flight at a time.
MaxCalls == 2

Handlers == 1..MaxCalls

\* A regular expression literal evaluated: the pattern with lastIndex 0.
RegExp(rule) ==
    [kind |-> rule.kind, alts |-> rule.alts, explanation |-> rule.explanation,
     lastIndex |-> 0]

\* new DocumentAnalyzer(): this.languagePatterns as the constructor builds
\* it, the spelling patterns as Object.entries lists them.
Constructor ==
    [lang \in Languages |->
       [spellingPatterns |-> spellingPatterns(lang),
        grammarPatterns  |-> [k \in 1..Len(grammarPatterns(lang)) |->
                                RegExp(grammarPatterns(lang)[k])]]]

\* The analysis object of a handler that has none.
NoResult ==
    [documentTitle |-> Undefined, language |-> "", spellingErrors |-> <<>>,
     grammarErrors |-> <<>>, styleSuggestions |-> <<>>]

\* A handler that serves no request.  at is where the handler is; documents
\* are the documents it analyzes, results the analyses it has collected (the
\* results of the response, once it has responded), status the HTTP status
\* of the response, analysis the analysis object of the call in flight.
Idle ==
    [at |-> "idle", endpoint |-> "", documents |-> <<>>, results |-> <<>>,
     analysis |-> NoResult, status |-> 0]

-----------------------------------------------------------------------------
(* analyzeDocument: the initial states and the steps                       *)

\* No request has reached the server.
ServerAtRest ==
    /\ languagePatterns = Constructor
    /\ handlers = [h \in Handlers |-> Idle]

\* formatAnalysisResult has not been called.
NoOutput == <<>>

-----------------------------------------------------------------------------
(* The client and the upload directory before anything has happened        *)

\* The most calls of App's async functions in flight at a time.
MaxInvocations == 1

Invocations == 1..MaxInvocations

\* The state of App at its first render, its effects not yet run: the
\* useState initial values; mounted tells that the effects of the first
\* render have run, lastConnected and lastAuthorized are the dependency
\* values that the second and the third effect last ran with.
AppAtFirstRender ==
    [mounted                 |-> FALSE,
     isConnected             |-> FALSE,
     connectionLoading       |-> FALSE,
     isGoogleDriveAuthorized |-> FALSE,
     authLoading             |-> FALSE,
     foldersLoading          |-> FALSE,
     error                   |-> "null",
     folders                 |-> [isArray |-> TRUE, length |-> 0,
                                  error |-> "undefined"],
     lastConnected           |-> FALSE,
     lastAuthorized          |-> FALSE]

\* A slot without a call: fn is the function called, at the await the call
\* is suspended at, answer what its first request was settled with.
NoCall == [fn |-> "", at |-> "free", answer |-> ""]

\* The null of uploadedFile and of a request without a file.
NoFile == [name |-> "", type |-> "", size |-> 0, holds |-> ""]

\* The state of FileUploader at its first render: the useState initial
\* values; request is the file of the POST /api/upload-file in flight.
UploaderAtRest ==
    [uploadedFile   |-> NoFile,
     analysisResult |-> "null",
     loading        |-> FALSE,
     error          |-> "null",
     request        |-> NoFile]

\* The most POST /api/upload-file requests in flight at a time.
MaxUploads == 2

Uploads == 1..MaxUploads

\* The last value of Date.now(), the first being 0.
MaxClock == 1

\* The original name of every uploaded file.
OriginalName == "file"

\* Date.now() + '-' + file.originalname, for each value of Date.now().
Paths == {<<now, OriginalName>> : now \in 0..MaxClock}

\* No file at a path of the uploads directory.  A file there is what it
\* holds and the requests whose upload has written it.
Absent == [holds |-> "", writers |-> {}]

\* An upload request that has not arrived: at is where its handling is,
\* stored tells that multer has stored its file, at path; mimetype is
\* req.file.mimetype until the handler has branched on it, and data is what
\* the handler has read of the file until it has used it.
NoUpload ==
    [at |-> "idle", mimetype |-> "", stored |-> FALSE,
     path |-> <<0, OriginalName>>, data |-> "", status |-> 0]

\* The server with an empty uploads directory and no upload request.
UploadServerAtRest ==
    [now      |-> 0,
     dir      |-> [path \in Paths |-> Absent],
     requests |-> [u \in Uploads |-> NoUpload]]

\* analyzeDocuments not running: at is where the call is, selection the
\* selectedDocuments of the render that made it, requested the ids whose
\* content has been asked for, contents the answers collected, and posted
\* tells that POST /api/analyze has been sent.
NoAnalyze ==
    [at |-> "free", selection |-> <<>>, requested |-> <<>>,
     contents |-> <<>>, posted |-> FALSE]

\* The state of the App with Drive documents at its first render.
DriveAtRest ==
    [selectedDocuments |-> <<>>,
     analysisResults   |-> <<>>,
     loading           |-> FALSE,
     error             |-> "null",
     call              |-> NoAnalyze]

\* Nothing outside the analyzer and its endpoints has happened.
OthersAtRest ==
    /\ formatted = NoOutput
    /\ app = AppAtFirstRender
    /\ calls = [c \in Invocations |-> NoCall]
    /\ uploader = UploaderAtRest
    /\ uploadServer = UploadServerAtRest
    /\ drive = DriveAtRest

InitWith(texts) ==
    /\ document \in [title : Titles, content : texts]
    /\ pc = "start"
    /\ language = ""
    /\ scores = NoScores
    /\ analysis = NoAnalysis
    /\ ServerAtRest
    /\ OthersAtRest

\* A document for the checkers.
Init == InitWith(Texts(CheckVocabulary))

\* A document for the language detector.
InitDetect == InitWith(Texts(DetectVocabulary))

\* A document for the style checker.
InitStyle == InitWith(Texts(PhraseVocabulary))

\* Tokens for the spelling tables: correctly spelled words that are keys of
\* the Turkish, German and French tables, a word that makes a text of each
\* of these languages, and an English misspelling.
SpellingVocabulary ==
    { <<"o","l","a","c","a","k">>,
      <<"i","c-cedilla","i","n">>,
      <<"d","a","s","s">>,
      <<"u","n","d">>,
      <<"a","p","p","a","r","t","e","m","e","n","t">>,
      <<"e","t">>,
      <<"r","e","c","i","e","v","e">> }

\* A document for the spelling tables.
InitSpelling == InitWith(Texts(SpellingVocabulary))

\* analyzeDocument up to its first await: detect the language (scores is
\* detectLanguage's local object), build the empty analysis, and enter the
\* checks if the language has a table.
AnalyzeDocument ==
    /\ pc = "start"
    /\ scores' = Scores(document.content)
    /\ language' = detectLanguage(document.content)
    /\ analysis' = [documentTitle    |-> document.title,
                    language         |-> language',
                    spellingErrors   |-> <<>>,
                    grammarErrors    |-> <<>>,
                    styleSuggestions |-> <<>>]
    /\ pc' = IF language' \in Languages THEN "spelling" ELSE "return"
    /\ UNCHANGED <<document, serverVars, otherVars>>

AnalyzeSpelling ==
    /\ pc = "spelling"
    /\ analysis' = [analysis EXCEPT !.spellingErrors =
                      @ \o SpellingFindings(document.content, language)]
    /\ pc' = "grammar"
    /\ UNCHANGED <<document, language, scores, serverVars, otherVars>>

AnalyzeGrammar ==
    /\ pc = "grammar"
    /\ analysis' = [analysis EXCEPT !.grammarErrors =
                      @ \o GrammarFindings(document.content, language)]
    /\ pc' = "style"
    /\ UNCHANGED <<document, language, scores, serverVars, otherVars>>

AnalyzeStyle ==
    /\ pc = "style"
    /\ analysis' = [analysis EXCEPT !.styleSuggestions =
                      @ \o StyleFindings(document.content, language)]
    /\ pc' = "return"
    /\ UNCHANGED <<document, language, scores, serverVars, otherVars>>

\* return analysis
Return ==
    /\ pc = "return"
    /\ pc' = "done"
    /\ UNCHANGED <<document, language, scores, analysis, serverVars, otherVars>>

Next ==
    \/ AnalyzeDocument
    \/ AnalyzeSpelling
    \/ AnalyzeGrammar
    \/ AnalyzeStyle
    \/ Return

Spec == Init /\ [][Next]_vars

SpecDetect == InitDetect /\ [][Next]_vars

SpecStyle == InitStyle /\ [][Next]_vars

SpecSpelling == InitSpelling /\ [][Next]_vars

-----------------------------------------------------------------------------
(* The server: the analyzer instance behind the facade and the endpoints   *)

\* Mutant of Throws: an empty content is refused with an exception too.
ThrowsOnEmptyContent(doc) ==
    doc.isNull \/ doc.content.type # "string"
        \/ doc.content.chars = <<>>

\* The synchronous start of DocumentAnalyzer.analyzeDocument throws a
\* TypeError: destructuring null, or text.match on a content that is no
\* string (detectLanguage).
Throws(doc) ==
    doc.isNull \/ doc.content.type # "string"

\* DocumentAnalyzer.analyzeDocument up to its first await: the language is
\* detected, the analysis object is built, and analyzeSpelling, which has no
\* await of its own, has run.
StartAnalysis(doc, patterns) ==
    LET content == doc.content.chars
        lang    == detectLanguage(content)
    IN  [documentTitle    |-> doc.title,
         language         |-> lang,
         spellingErrors   |-> SpellingLoop(patterns[lang].spellingPatterns,
                                           SplitWhitespace(toLowerCase(content))),
         grammarErrors    |-> <<>>,
         styleSuggestions |-> <<>>]

\* Mutant of RegExpMatch: pattern.exec(content) in the place of
\* content.match(pattern): one match, searched from lastIndex, which is left
\* where the match stopped.
RegExpExecOnce(text, regex) ==
    LET found == MatchAllFrom(text, regex, regex.lastIndex + 1)
    IN  IF found = <<>> THEN [matches |-> <<>>, lastIndex |-> 0]
        ELSE [matches |-> <<found[1]>>, lastIndex |-> found[1].stop]

\* Mutant of RegExpMatch: lastIndex is not reset before the matches are
\* collected, and is left where the last match stopped.
RegExpMatchFromLastIndex(text, regex) ==
    LET found == MatchAllFrom(text, regex, regex.lastIndex + 1)
    IN  [matches   |-> found,
         lastIndex |-> IF found = <<>> THEN 0 ELSE found[Len(found)].stop]

\* Mutant of RegExpMatch: every match is found, and lastIndex is left where
\* the last match stopped.
RegExpMatchKeepsLastIndex(text, regex) ==
    LET found == MatchAll(text, regex)
    IN  [matches   |-> found,
         lastIndex |-> IF found = <<>> THEN 0 ELSE found[Len(found)].stop]

\* content.match(pattern.pattern) on a shared g-flagged regular expression:
\* lastIndex is set to 0, the matches are collected until the search fails,
\* and the failed search leaves lastIndex at 0.
RegExpMatch(text, regex) ==
    [matches |-> MatchAll(text, regex), lastIndex |-> 0]

\* analyzeGrammar on the regular expressions of the instance: the findings,
\* and the regular expressions as the calls leave them (content.replace
\* sets lastIndex to 0 as well).
RECURSIVE GrammarOutcome(_, _)
GrammarOutcome(content, regexes) ==
    IF regexes = <<>> THEN [grammarErrors |-> <<>>, grammarPatterns |-> <<>>]
    ELSE LET regex == Head(regexes)
             found == RegExpMatch(content, regex)
             here  == [k \in 1..Len(found.matches) |->
                         [original    |-> SubSeq(content, found.matches[k].start,
                                                 found.matches[k].stop),
                          explanation |-> regex.explanation,
                          corrected   |-> ReplaceAll(content, regex)]]
             rest  == GrammarOutcome(content, Tail(regexes))
         IN  [grammarErrors   |-> here \o rest.grammarErrors,
              grammarPatterns |-> <<[regex EXCEPT !.lastIndex = found.lastIndex]>>
                                  \o rest.grammarPatterns]

\* The server's own detectLanguage ("Simplified language detection"):
\* RegExp.prototype.test of the three character sets in turn, the names
\* capitalised.
SimplifiedDetectLanguage(text) ==
    IF \E i \in 1..Len(text) : text[i] \in turkishChars THEN "Turkish"
    ELSE IF \E i \in 1..Len(text) : text[i] \in germanChars THEN "German"
    ELSE IF \E i \in 1..Len(text) : text[i] \in frenchChars THEN "French"
    ELSE "English"

\* The basic analysis the facade returns when the analyzer has thrown.
Fallback(doc) ==
    [documentTitle    |-> doc.title,
     language         |-> SimplifiedDetectLanguage(ToString(doc.content)),
     spellingErrors   |-> <<>>,
     grammarErrors    |-> <<>>,
     styleSuggestions |-> <<>>]

\* The document the handler is analyzing: the one after those it has the
\* results of.
Current(handler) == handler.documents[Len(handler.results) + 1]

\* The handler calls the facade on its current document: the analyzer runs
\* up to its first await, or throws, which the facade catches after its own
\* await.
Begin(handler, patterns) ==
    IF Throws(Current(handler))
      THEN [handler EXCEPT !.at = "catch"]
      ELSE [handler EXCEPT !.at = "grammar",
                           !.analysis = StartAnalysis(Current(handler), patterns)]

\* The response of a handler.
Respond(handler, status, results) ==
    [handler EXCEPT !.at = "responded", !.status = status, !.results = results,
                    !.analysis = NoResult]

\* The handler that serves the next request: the first that is idle.
Free(h) ==
    /\ handlers[h].at = "idle"
    /\ \A g \in 1..(h - 1) : handlers[g].at # "idle"

\* The bodies of POST /api/analyze: without a documents array, or with an
\* array of at most MaxDocuments documents.
AnalyzeBodies ==
    {[isArray |-> FALSE, documents |-> <<>>]}
    \cup {[isArray |-> TRUE, documents |-> ds] :
            ds \in UNION {[1..n -> Documents] : n \in 0..MaxDocuments}}

\* app.post('/api/analyze'): up to the first await.  The clients of this
\* action send one request at a time.
PostAnalyze(h) ==
    /\ Free(h)
    /\ \A g \in Handlers : handlers[g].at = "idle"
    /\ \E body \in AnalyzeBodies :
         LET request == [Idle EXCEPT !.endpoint = "analyze",
                                     !.documents = body.documents]
         IN  handlers' = [handlers EXCEPT ![h] =
                 IF ~body.isArray THEN Respond(request, 400, <<>>)
                 ELSE IF body.documents = <<>> THEN Respond(request, 200, <<>>)
                 ELSE Begin(request, languagePatterns)]
    /\ UNCHANGED <<languagePatterns, callVars, otherVars>>

\* The bodies of POST /api/analyze-demo: the documents that are objects
\* (one Turkish text being enough), and two more without a title or with an
\* empty one.
DemoBodies ==
    (Documents \ {NullDocument,
                  Object(String(<<"H">>), String(<<"b","i","r"," ","e","v">>))})
    \cup {Object(Undefined, String(<<"a","n","d">>)),
          Object(String(<<>>), String(<<"a","n","d">>))}

\* app.post('/api/analyze-demo'): up to the first await.  The body holds the
\* title and the content of one document.
PostAnalyzeDemo(h) ==
    /\ Free(h)
    /\ \E body \in DemoBodies :
         LET request == [Idle EXCEPT !.endpoint = "analyze-demo",
                                     !.documents = <<body>>]
         IN  handlers' = [handlers EXCEPT ![h] =
                 IF ~Truthy(body.content) \/ ~Truthy(body.title)
                   THEN Respond(request, 400, <<>>)
                   ELSE Begin(request, languagePatterns)]
    /\ UNCHANGED <<languagePatterns, callVars, otherVars>>

\* analyzeDocument resumes after await this.analyzeSpelling(...) and runs
\* analyzeGrammar.
CallGrammar(h) ==
    /\ handlers[h].at = "grammar"
    /\ LET lang    == handlers[h].analysis.language
           outcome == GrammarOutcome(Current(handlers[h]).content.chars,
                                     languagePatterns[lang].grammarPatterns)
       IN  /\ handlers' = [handlers EXCEPT
                 ![h].analysis.grammarErrors = @ \o outcome.grammarErrors,
                 ![h].at = "style"]
           /\ languagePatterns' = [languagePatterns EXCEPT
                 ![lang].grammarPatterns = outcome.grammarPatterns]
    /\ UNCHANGED <<callVars, otherVars>>

\* analyzeDocument resumes after await this.analyzeGrammar(...) and runs
\* analyzeStyle, whose patterns are literals of the call.
CallStyle(h) ==
    /\ handlers[h].at = "style"
    /\ handlers' = [handlers EXCEPT
          ![h].analysis.styleSuggestions =
              @ \o StyleFindings(Current(handlers[h]).content.chars,
                                 handlers[h].analysis.language),
          ![h].at = "return"]
    /\ UNCHANGED <<languagePatterns, callVars, otherVars>>

\* analyzeDocument resumes after await this.analyzeStyle(...) and returns
\* the analysis, which the facade returns in its turn.
CallReturn(h) ==
    /\ handlers[h].at = "return"
    /\ handlers' = [handlers EXCEPT ![h].at = "resume"]
    /\ UNCHANGED <<languagePatterns, callVars, otherVars>>

\* The catch block of the facade: it destructures the document again, which
\* throws once more if the document is null, and returns the basic analysis.
FacadeCatch(h) ==
    /\ handlers[h].at = "catch"
    /\ handlers' = [handlers EXCEPT ![h] =
          IF Current(handlers[h]).isNull
            THEN [handlers[h] EXCEPT !.at = "failed"]
            ELSE [handlers[h] EXCEPT
                    !.at = "resume",
                    !.analysis = Fallback(Current(handlers[h]))]]
    /\ UNCHANGED <<languagePatterns, callVars, otherVars>>

\* The handler resumes after await analyzeDocument(doc): it keeps the
\* analysis and calls the facade on the next document, or responds.
HandlerResume(h) ==
    /\ handlers[h].at = "resume"
    /\ LET kept == [handlers[h] EXCEPT !.results = Append(@, handlers[h].analysis)]
       IN  handlers' = [handlers EXCEPT ![h] =
               IF Len(kept.results) < Len(kept.documents)
                 THEN Begin(kept, languagePatterns)
                 ELSE Respond(kept, 200, kept.results)]
    /\ UNCHANGED <<languagePatterns, callVars, otherVars>>

\* The catch block of the handler: the facade has thrown.
HandlerCatch(h) ==
    /\ handlers[h].at = "failed"
    /\ handlers' = [handlers EXCEPT ![h] = Respond(@, 500, <<>>)]
    /\ UNCHANGED <<languagePatterns, callVars, otherVars>>

\* The handler has sent its response and is over.
HandlerEnd(h) ==
    /\ handlers[h].at = "responded"
    /\ handlers' = [handlers EXCEPT ![h] = Idle]
    /\ UNCHANGED <<languagePatterns, callVars, otherVars>>

\* The server at rest; the variables of the single call stand still.
InitServer ==
    /\ document = [title |-> "Report", content |-> <<>>]
    /\ pc = "start"
    /\ language = ""
    /\ scores = NoScores
    /\ analysis = NoAnalysis
    /\ ServerAtRest
    /\ OthersAtRest

\* POST /api/analyze, one request at a time.
NextServer ==
    \E h \in Handlers :
        \/ PostAnalyze(h)
        \/ CallGrammar(h)
        \/ CallStyle(h)
        \/ CallReturn(h)
        \/ FacadeCatch(h)
        \/ HandlerResume(h)
        \/ HandlerCatch(h)
        \/ HandlerEnd(h)

SpecServer == InitServer /\ [][NextServer]_vars

\* POST /api/analyze-demo, up to MaxCalls requests in flight.  The facade
\* does not throw here (the document is never null), so the handler's catch
\* block is not reached.
NextConcurrent ==
    \E h \in Handlers :
        \/ PostAnalyzeDemo(h)
        \/ CallGrammar(h)
        \/ CallStyle(h)
        \/ CallReturn(h)
        \/ FacadeCatch(h)
        \/ HandlerResume(h)
        \/ HandlerEnd(h)

SpecConcurrent == InitServer /\ [][NextConcurrent]_vars

-----------------------------------------------------------------------------
(* formatAnalysisResult                                                    *)
(*                                                                         *)
(* The result string is the sequence of its lines.  A line is the text of  *)
(* its template, with a hole {} where a value is interpolated, and the     *)
(* values in the order of the holes; the arrow, the cross and the check    *)
(* mark are written in ASCII.                                              *)

Line(text, args) == [text |-> text, args |-> args]

BlankLine == Line("", <<>>)

\* analysis.spellingErrors.forEach(error => ...)
SpellingLines(errors) ==
    [i \in 1..Len(errors) |->
        Line("- {} -> {}", <<errors[i].original, errors[i].corrected>>)]

\* analysis.grammarErrors.forEach((error, index) => ...): three lines and
\* a blank one for each error, numbered from 1.
RECURSIVE GrammarLines(_, _)
GrammarLines(errors, index) ==
    IF index >= Len(errors) THEN <<>>
    ELSE << Line("{}. \"{}\"", <<index + 1, errors[index + 1].original>>),
            Line("   x {}", <<errors[index + 1].explanation>>),
            Line("   v \"{}\"", <<errors[index + 1].corrected>>),
            BlankLine >>
         \o GrammarLines(errors, index + 1)

\* analysis.styleSuggestions.forEach(suggestion => ...)
RECURSIVE StyleLines(_)
StyleLines(suggestions) ==
    IF suggestions = <<>> THEN <<>>
    ELSE << Line("- Original: \"{}\"", <<Head(suggestions).original>>),
            Line("  Suggestion: \"{}\"", <<Head(suggestions).suggestion>>),
            BlankLine >>
         \o StyleLines(Tail(suggestions))

\* Mutant of NoIssuesLines: the style suggestions are not looked at.
NoIssuesLinesIgnoringStyle(a) ==
    IF Len(a.spellingErrors) = 0 /\ Len(a.grammarErrors) = 0
      THEN <<Line("No issues found! Your document looks great.", <<>>)>>
      ELSE <<>>

\* The closing if of formatAnalysisResult.
NoIssuesLines(a) ==
    IF /\ Len(a.spellingErrors) = 0
       /\ Len(a.grammarErrors) = 0
       /\ Len(a.styleSuggestions) = 0
      THEN <<Line("No issues found! Your document looks great.", <<>>)>>
      ELSE <<>>

formatAnalysisResult(a) ==
    << Line("---", <<>>),
       Line("Document Title: {}", <<a.documentTitle>>),
       BlankLine,
       Line("Language: {}", <<a.language>>),
       BlankLine >>
    \o (IF Len(a.spellingErrors) > 0
          THEN <<Line("### Spelling Errors", <<>>)>>
               \o SpellingLines(a.spellingErrors) \o <<BlankLine>>
          ELSE <<>>)
    \o (IF Len(a.grammarErrors) > 0
          THEN <<Line("### Grammar Errors", <<>>)>>
               \o GrammarLines(a.grammarErrors, 0)
          ELSE <<>>)
    \o (IF Len(a.styleSuggestions) > 0
          THEN <<Line("### Style Suggestions (Optional)", <<>>)>>
               \o StyleLines(a.styleSuggestions)
          ELSE <<>>)
    \o NoIssuesLines(a)
    \o <<Line("---", <<>>)>>

\* The most findings in a list of an analysis given to formatAnalysisResult.
MaxFindings == 2

\* Lists of at most MaxFindings of the findings.
ListsOf(findings) == UNION {[1..n -> findings] : n \in 0..MaxFindings}

\* Analysis objects for formatAnalysisResult: findings as the checkers
\* build them, in lists of every length up to MaxFindings.
FormatInputs ==
    [documentTitle    : {"Report", "Notes"},
     language         : Languages,
     spellingErrors   : ListsOf({[original  |-> spellingPatterns("english")[e][1],
                                  corrected |-> spellingPatterns("english")[e][2]]
                                    : e \in 1..2}),
     grammarErrors    : ListsOf({[original    |-> <<"i","t","s">>,
                                  explanation |-> grammarPatterns("english")[1].explanation,
                                  corrected   |-> c]
                                    : c \in {<<"i","t","'","s">>, <<"i","t","'","s"," ","i","t","s">>}}),
     styleSuggestions : ListsOf({[original   |-> o,
                                  suggestion |-> stylePatterns("english")[2].suggestion]
                                    : o \in {<<"n","o","t"," ","b","a","d"," ","o","v","e","r","a","l","l">>,
                                             <<"N","O","T"," ","B","A","D"," ","O","V","E","R","A","L","L">>}})]

\* An analysis object is at hand; formatAnalysisResult has not been called.
InitFormat ==
    /\ document = [title |-> "Report", content |-> <<>>]
    /\ pc = "done"
    /\ language = ""
    /\ scores = NoScores
    /\ analysis \in FormatInputs
    /\ ServerAtRest
    /\ OthersAtRest

\* formatAnalysisResult(analysis)
FormatAnalysisResult ==
    /\ pc = "done"
    /\ pc' = "formatted"
    /\ formatted' = formatAnalysisResult(analysis)
    /\ UNCHANGED <<document, language, scores, analysis, serverVars,
                   appVars, uploadVars, drive>>

NextFormat == FormatAnalysisResult

SpecFormat == InitFormat /\ [][NextFormat]_vars

-----------------------------------------------------------------------------
(* The client's App component (client/src/App.tsx): the connection check,  *)
(* the Google Drive authorisation and the folder list.                     *)
(*                                                                         *)
(* A call of an async function runs to its first await when it is made,    *)
(* and from one await to the next when the awaited request settles.  The   *)
(* answers are those the code of the client tells apart.                   *)

\* res.json({ status: 'OK', message: ... }): the body with which the server
\* answers GET /api/health.
HealthOfServer == [status |-> "OK"]

\* The bodies of a successful answer to GET /api/health: the server's, and
\* one whose status is the 'ok' that checkConnection compares with.
HealthBodies == {HealthOfServer, [status |-> "ok"]}

\* The data of an answer to GET /api/folders: a list of folders (length is
\* its length) or an object with an error message; error is "undefined"
\* where the data has no such property.
FolderList(n) == [isArray |-> TRUE, length |-> n, error |-> "undefined"]

ErrorObject(message) == [isArray |-> FALSE, length |-> 0, error |-> message]

FoldersData ==
    {FolderList(0), FolderList(3),
     ErrorObject("Google Drive authorization required"),
     ErrorObject("Failed to fetch folders")}

\* The status of the response of a rejected axios request: 0 when there is
\* no response.
Rejections == {0, 401, 500}

\* data.length > 0 || data.error === undefined
LengthOrNoError(data) ==
    (data.isArray /\ data.length > 0) \/ data.error = "undefined"

\* foldersData.error && foldersData.error.includes('authorization required')
AuthorizationRequired(data) ==
    data.error = "Google Drive authorization required"

\* The loading flag of each function.
LoadingFlag(fn) ==
    CASE fn = "checkConnection"      -> "connectionLoading"
      [] fn = "checkGoogleDriveAuth" -> "authLoading"
      [] fn = "authorizeGoogleDrive" -> "authLoading"
      [] fn = "fetchFolders"         -> "foldersLoading"

\* The await a call of the function is first suspended at.
FirstAwait(fn) == IF fn = "checkConnection" THEN "health" ELSE "folders"

\* The statements of the function before its first await.
Started(a, fn) ==
    CASE fn = "checkConnection"      -> [a EXCEPT !.connectionLoading = TRUE]
      [] fn = "checkGoogleDriveAuth" -> [a EXCEPT !.authLoading = TRUE]
      [] fn = "authorizeGoogleDrive" -> [a EXCEPT !.authLoading = TRUE,
                                                  !.error = "null"]
      [] fn = "fetchFolders"         -> [a EXCEPT !.foldersLoading = TRUE,
                                                  !.error = "null"]

\* Mutant of Finally: the loading flag is left as it is.
FinallyKeepsLoading(a, fn) == a

\* The finally block of the function.
Finally(a, fn) == [a EXCEPT ![LoadingFlag(fn)] = FALSE]

HasFreeSlot == \E c \in Invocations : calls[c].at = "free"

FreeSlot ==
    CHOOSE c \in Invocations :
        calls[c].at = "free" /\ \A d \in 1..(c - 1) : calls[d].at # "free"

\* The function is called in state a of the component.
Invoke(a, fn) ==
    /\ HasFreeSlot
    /\ app' = Started(a, fn)
    /\ calls' = [calls EXCEPT ![FreeSlot] =
                    [fn |-> fn, at |-> FirstAwait(fn), answer |-> ""]]

\* The call goes on to its next await.
Goes(c, at, answer) ==
    calls' = [calls EXCEPT ![c] = [@ EXCEPT !.at = at, !.answer = answer]]

\* The call returns through its finally block, a being the state that its
\* try or catch block has left.
Returns(c, a, answer) ==
    /\ app' = Finally(a, calls[c].fn)
    /\ Goes(c, "done", answer)

NotApp == <<callVars, serverVars, formatted, uploadVars, drive>>

\* The effects of the first render: checkConnection is called; isConnected
\* and isGoogleDriveAuthorized are false, so the other two do nothing.
Mount ==
    /\ ~app.mounted
    /\ Invoke([app EXCEPT !.mounted = TRUE], "checkConnection")
    /\ UNCHANGED NotApp

\* handleRetry, from the "Disconnected" banner or from the error banner.
HandleRetry ==
    /\ app.mounted
    /\ (~app.connectionLoading /\ ~app.isConnected) \/ app.error # "null"
    /\ Invoke([app EXCEPT !.error = "null"], "checkConnection")
    /\ UNCHANGED NotApp

\* The button "Authorize Google Drive", disabled while authLoading.
ClickAuthorize ==
    /\ app.mounted
    /\ ~app.isGoogleDriveAuthorized
    /\ ~app.authLoading
    /\ Invoke(app, "authorizeGoogleDrive")
    /\ UNCHANGED NotApp

\* useEffect(..., [isConnected, checkGoogleDriveAuth]) after a render in
\* which isConnected has changed.
EffectIsConnected ==
    /\ app.mounted
    /\ app.isConnected # app.lastConnected
    /\ IF app.isConnected
         THEN Invoke([app EXCEPT !.lastConnected = TRUE], "checkGoogleDriveAuth")
         ELSE /\ app' = [app EXCEPT !.lastConnected = FALSE]
              /\ UNCHANGED calls
    /\ UNCHANGED NotApp

\* useEffect(..., [isGoogleDriveAuthorized, fetchFolders]) after a render
\* in which isGoogleDriveAuthorized has changed.
EffectIsAuthorized ==
    /\ app.mounted
    /\ app.isGoogleDriveAuthorized # app.lastAuthorized
    /\ IF app.isGoogleDriveAuthorized
         THEN Invoke([app EXCEPT !.lastAuthorized = TRUE], "fetchFolders")
         ELSE /\ app' = [app EXCEPT !.lastAuthorized = FALSE]
              /\ UNCHANGED calls
    /\ UNCHANGED NotApp

\* checkConnection: axios.get('/api/health') is fulfilled.
HealthAnswers(c) ==
    /\ calls[c].at = "health"
    /\ \E body \in HealthBodies :
         Returns(c, [app EXCEPT !.isConnected = (body.status = "ok"),
                                !.error = "null"],
                 body.status)
    /\ UNCHANGED NotApp

\* checkConnection: axios.get('/api/health') is rejected.
HealthFails(c) ==
    /\ calls[c].at = "health"
    /\ Returns(c, [app EXCEPT !.isConnected = FALSE,
                              !.error = "Unable to connect to the server. Please check your connection."],
               "rejected")
    /\ UNCHANGED NotApp

\* checkGoogleDriveAuth and fetchFolders: axios.get('/api/folders') is
\* fulfilled.
FoldersAnswers(c) ==
    /\ calls[c].at = "folders"
    /\ calls[c].fn \in {"checkGoogleDriveAuth", "fetchFolders"}
    /\ \E data \in FoldersData :
         Returns(c, IF calls[c].fn = "checkGoogleDriveAuth"
                      THEN [app EXCEPT !.isGoogleDriveAuthorized =
                                           LengthOrNoError(data),
                                       !.folders = data]
                      ELSE [app EXCEPT !.folders = data],
                 "fulfilled")
    /\ UNCHANGED NotApp

\* checkGoogleDriveAuth and fetchFolders: axios.get('/api/folders') is
\* rejected.
FoldersFails(c) ==
    /\ calls[c].at = "folders"
    /\ calls[c].fn \in {"checkGoogleDriveAuth", "fetchFolders"}
    /\ \E status \in Rejections :
         Returns(c, IF calls[c].fn = "checkGoogleDriveAuth" \/ status = 401
                      THEN [app EXCEPT !.isGoogleDriveAuthorized = FALSE]
                      ELSE [app EXCEPT !.error =
                                "Failed to fetch folders. Please try again."],
                 "rejected")
    /\ UNCHANGED NotApp

\* The catch block of authorizeGoogleDrive.
AuthorizationCaught(c) ==
    Returns(c, [app EXCEPT !.error =
                   "Failed to connect to authorization service. Please try demo mode."],
            "rejected")

\* authorizeGoogleDrive: fetch('/api/folders') settles.
FetchFoldersSettles(c) ==
    /\ calls[c].at = "folders"
    /\ calls[c].fn = "authorizeGoogleDrive"
    /\ \/ AuthorizationCaught(c)
       \/ Returns(c, [app EXCEPT !.error =
                         "Google Drive authorization is not configured on the server. Please contact the administrator."],
                  "not ok")
       \/ Goes(c, "foldersJson", "ok") /\ UNCHANGED app
    /\ UNCHANGED NotApp

\* authorizeGoogleDrive: foldersResponse.json() settles.
FoldersJsonSettles(c) ==
    /\ calls[c].at = "foldersJson"
    /\ \/ AuthorizationCaught(c)
       \/ \E data \in FoldersData :
            IF AuthorizationRequired(data)
              THEN Goes(c, "authGoogle", calls[c].answer) /\ UNCHANGED app
              ELSE Returns(c, [app EXCEPT !.isGoogleDriveAuthorized = TRUE,
                                          !.folders = data],
                           calls[c].answer)
    /\ UNCHANGED NotApp

\* authorizeGoogleDrive: fetch('/api/auth/google') settles; when the answer
\* is ok, redirected or not, nothing of the state is set.
FetchAuthSettles(c) ==
    /\ calls[c].at = "authGoogle"
    /\ \/ AuthorizationCaught(c)
       \/ Goes(c, "authJson", calls[c].answer) /\ UNCHANGED app
       \/ Returns(c, app, calls[c].answer)
    /\ UNCHANGED NotApp

\* authorizeGoogleDrive: authResponse.json() settles, and the function
\* returns from inside its try block.
AuthJsonSettles(c) ==
    /\ calls[c].at = "authJson"
    /\ \/ AuthorizationCaught(c)
       \/ \E message \in {"Google Drive authorization is not configured on the server. Please contact the administrator.",
                          "Failed to start Google Drive authorization"} :
            Returns(c, [app EXCEPT !.error = message], calls[c].answer)
    /\ UNCHANGED NotApp

\* The call that has returned is forgotten.
Forget(c) ==
    /\ calls[c].at = "done"
    /\ calls' = [calls EXCEPT ![c] = NoCall]
    /\ UNCHANGED <<app, NotApp>>

\* A request of the call settles.
Settles(c) ==
    \/ HealthAnswers(c)
    \/ HealthFails(c)
    \/ FoldersAnswers(c)
    \/ FoldersFails(c)
    \/ FetchFoldersSettles(c)
    \/ FoldersJsonSettles(c)
    \/ FetchAuthSettles(c)
    \/ AuthJsonSettles(c)

InitApp == InitServer

NextApp ==
    \/ Mount
    \/ HandleRetry
    \/ ClickAuthorize
    \/ EffectIsConnected
    \/ EffectIsAuthorized
    \/ \E c \in Invocations :
         \/ HealthAnswers(c)
         \/ HealthFails(c)
         \/ FoldersAnswers(c)
         \/ FoldersFails(c)
         \/ FetchFoldersSettles(c)
         \/ FoldersJsonSettles(c)
         \/ FetchAuthSettles(c)
         \/ AuthJsonSettles(c)
         \/ Forget(c)

SpecApp == InitApp /\ [][NextApp]_vars

\* Every request settles.
SpecAppSettles ==
    InitApp /\ [][NextApp]_vars /\ \A c \in Invocations : WF_vars(Settles(c))

-----------------------------------------------------------------------------
(* The client's FileUploader component (client/src/components/             *)
(* FileUploader.tsx)                                                       *)

\* 10 * 1024 * 1024
TenMB == 10 * 1024 * 1024

\* const allowedTypes = [...]
allowedTypes ==
    {"application/pdf",
     "application/vnd.openxmlformats-officedocument.wordprocessingml.document",
     "application/msword",
     "text/plain"}

\* A file: its name, MIME type and size in bytes, and what it holds (a
\* text, nothing but blanks, or bytes from which no text can be extracted).
File(name, type, size, holds) ==
    [name |-> name, type |-> type, size |-> size, holds |-> holds]

\* The files a user drops or chooses: the four allowed types, an image and
\* a file without a type, at one byte, at 10 MB and at one byte more.
DroppedFiles ==
    {File("file", type, size, "text") :
        type \in allowedTypes \cup {"image/png", ""},
        size \in {1, TenMB, TenMB + 1}}

\* Mutant of Accepted: the size is not looked at.
AcceptedAnySize(file) == file.type \in allowedTypes

\* handleFile stores the file: neither of its two checks returns early.
Accepted(file) == file.type \in allowedTypes /\ ~(file.size > TenMB)

NotUploader == <<callVars, serverVars, formatted, appVars, uploadServer, drive>>

\* handleFile(file), from handleDrop or handleFileInput.
HandleFile ==
    /\ \E file \in DroppedFiles :
         LET cleared == [uploader EXCEPT !.error = "null",
                                         !.analysisResult = "null"]
         IN  uploader' =
               IF file.type \notin allowedTypes
                 THEN [cleared EXCEPT !.error =
                         "Invalid file type. Please upload PDF, DOCX, DOC, or TXT files only."]
               ELSE IF ~Accepted(file)
                 THEN [cleared EXCEPT !.error =
                         "File too large. Maximum size is 10MB."]
               ELSE [cleared EXCEPT !.uploadedFile = file]
    /\ UNCHANGED NotUploader

\* removeFile
RemoveFile ==
    /\ uploader.uploadedFile # NoFile
    /\ uploader' = [uploader EXCEPT !.uploadedFile = NoFile,
                                    !.analysisResult = "null",
                                    !.error = "null"]
    /\ UNCHANGED NotUploader

\* uploadFile up to its await: the button is shown when there is a file
\* and disabled while loading.
UploadFile ==
    /\ uploader.uploadedFile # NoFile
    /\ ~uploader.loading
    /\ uploader' = [uploader EXCEPT !.loading = TRUE,
                                    !.error = "null",
                                    !.request = uploader.uploadedFile]
    /\ UNCHANGED NotUploader

\* uploadFile: axios.post('/api/upload-file') is fulfilled.
UploadAnswers ==
    /\ uploader.request # NoFile
    /\ uploader' = [uploader EXCEPT !.analysisResult = "result",
                                    !.loading = FALSE,
                                    !.request = NoFile]
    /\ UNCHANGED NotUploader

\* uploadFile: axios.post('/api/upload-file') is rejected, with the error
\* message of the server or without a response.
UploadFails ==
    /\ uploader.request # NoFile
    /\ \E message \in {"Could not extract text from file",
                       "Failed to process uploaded file",
                       "Failed to upload and analyze file"} :
         uploader' = [uploader EXCEPT !.error = message,
                                      !.loading = FALSE,
                                      !.request = NoFile]
    /\ UNCHANGED NotUploader

InitUploader == InitServer

NextUploader ==
    \/ HandleFile
    \/ RemoveFile
    \/ UploadFile
    \/ UploadAnswers
    \/ UploadFails

SpecUploader == InitUploader /\ [][NextUploader]_vars

-----------------------------------------------------------------------------
(* POST /api/upload-file: multer's disk storage and the handler            *)

\* The files posted to the server, by any client: of the allowed types,
\* holding a text, blanks or bytes no text can be extracted from; one above
\* the size limit and one of a type that is not allowed.
PostedFiles ==
    {File(OriginalName, "application/pdf", 1, "text"),
     File(OriginalName, "application/pdf", 1, "blank"),
     File(OriginalName, "application/pdf", 1, "corrupt"),
     File(OriginalName,
          "application/vnd.openxmlformats-officedocument.wordprocessingml.document",
          1, "text"),
     File(OriginalName, "application/msword", 1, "corrupt"),
     File(OriginalName, "text/plain", 1, "text"),
     File(OriginalName, "text/plain", 1, "blank"),
     File(OriginalName, "text/plain", TenMB + 1, "text"),
     File(OriginalName, "image/png", 1, "text")}

\* fs.existsSync(path)
existsSync(dir, path) == dir[path] # Absent

\* fs.unlinkSync(path) on a file that exists.
unlinkSync(dir, path) == [dir EXCEPT ![path] = Absent]

\* Mutant of UnlinkAfterExtract: the clean-up after the extraction is
\* left out.
KeepAfterExtract(dir, path) == dir

\* "Clean up uploaded file": fs.unlinkSync(filePath) after the extraction.
UnlinkAfterExtract(dir, path) == unlinkSync(dir, path)

\* The upload server with the request u and the directory replaced.
With(u, request, dir) ==
    [uploadServer EXCEPT !.requests[u] = request, !.dir = dir]

\* The response of the request.
Responded(request, status) ==
    [request EXCEPT !.at = "responded", !.status = status,
                    !.mimetype = "", !.data = ""]

\* The catch block of the handler: the file is removed if it exists, and
\* the answer is 500.
Caught(u, request, dir) ==
    With(u, Responded(request, 500),
         IF existsSync(dir, request.path) THEN unlinkSync(dir, request.path)
         ELSE dir)

\* The handler from the end of the extraction: the file is removed (which
\* throws when it is not there), and a content that is blank is answered
\* 400, any other passed to analyzeDocument.
AfterExtract(u, request, content) ==
    LET dir == uploadServer.dir
    IN  IF ~existsSync(dir, request.path) THEN Caught(u, request, dir)
        ELSE With(u,
                  IF content = "blank" THEN Responded(request, 400)
                  ELSE [request EXCEPT !.at = "analyze", !.mimetype = "",
                                       !.data = ""],
                  UnlinkAfterExtract(dir, request.path))

NotUploadServer == <<callVars, serverVars, formatted, appVars, uploader, drive>>

\* The request that arrives next is the first that is idle.
FreeUpload(u) ==
    /\ uploadServer.requests[u].at = "idle"
    /\ \A v \in 1..(u - 1) : uploadServer.requests[v].at # "idle"

\* A request arrives and upload.single('file') has run: a file of a type
\* that is not allowed or above the size limit is answered 400 by the error
\* handler and none is kept; without a file the handler answers 400; any
\* other file is written at Date.now() + '-' + originalname.
PostUploadFile(u) ==
    /\ FreeUpload(u)
    /\ \E file \in PostedFiles \cup {NoFile} :
         LET request == [NoUpload EXCEPT !.mimetype = file.type]
             path    == <<uploadServer.now, OriginalName>>
         IN  uploadServer' =
               IF file = NoFile \/ file.type \notin allowedTypes
                                \/ file.size > TenMB
                 THEN With(u, Responded(request, 400), uploadServer.dir)
                 ELSE With(u, [request EXCEPT !.at = "stored", !.stored = TRUE,
                                              !.path = path],
                           [uploadServer.dir EXCEPT ![path] =
                               [holds   |-> file.holds,
                                writers |-> @.writers \cup {u}]])
    /\ UNCHANGED NotUploadServer

\* The handler runs to its first await: a PDF is read and given to pdfParse,
\* a DOCX or DOC is given to mammoth by its path, a text file is read and
\* the handler goes on; readFileSync throws when the file is not there.
StartUpload(u) ==
    LET request == uploadServer.requests[u]
        dir     == uploadServer.dir
    IN  /\ request.at = "stored"
        /\ uploadServer' =
             IF request.mimetype \in {"application/pdf", "text/plain"}
                  /\ ~existsSync(dir, request.path)
               THEN Caught(u, request, dir)
             ELSE IF request.mimetype = "application/pdf"
               THEN With(u, [request EXCEPT !.at = "pdfParse",
                                            !.mimetype = "",
                                            !.data = dir[request.path].holds],
                         dir)
             ELSE IF request.mimetype = "text/plain"
               THEN AfterExtract(u, request, dir[request.path].holds)
             ELSE With(u, [request EXCEPT !.at = "mammoth", !.mimetype = ""],
                       dir)
        /\ UNCHANGED NotUploadServer

\* await pdfParse(dataBuffer) settles.
PdfParseSettles(u) ==
    LET request == uploadServer.requests[u]
    IN  /\ request.at = "pdfParse"
        /\ uploadServer' =
             IF request.data = "corrupt"
               THEN Caught(u, request, uploadServer.dir)
               ELSE AfterExtract(u, request, request.data)
        /\ UNCHANGED NotUploadServer

\* await mammoth.extractRawText({ path: filePath }) settles: rejected when
\* the file is not there or no text can be extracted from it.
MammothSettles(u) ==
    LET request == uploadServer.requests[u]
        dir     == uploadServer.dir
    IN  /\ request.at = "mammoth"
        /\ uploadServer' =
             IF ~existsSync(dir, request.path)
                  \/ dir[request.path].holds = "corrupt"
               THEN Caught(u, request, dir)
               ELSE AfterExtract(u, request, dir[request.path].holds)
        /\ UNCHANGED NotUploadServer

\* await analyzeDocument({ title: fileName, content }) settles; the facade
\* returns a result for every such document.
UploadAnalyzed(u) ==
    LET request == uploadServer.requests[u]
    IN  /\ request.at = "analyze"
        /\ uploadServer' = With(u, Responded(request, 200), uploadServer.dir)
        /\ UNCHANGED NotUploadServer

\* The handler has returned.
UploadEnd(u) ==
    /\ uploadServer.requests[u].at = "responded"
    /\ uploadServer' = [uploadServer EXCEPT !.requests[u] = NoUpload]
    /\ UNCHANGED NotUploadServer

\* Date.now() has a new value.
Tick ==
    /\ uploadServer.now < MaxClock
    /\ uploadServer' = [uploadServer EXCEPT !.now = @ + 1]
    /\ UNCHANGED NotUploadServer

InitUpload == InitServer

NextUpload ==
    \/ Tick
    \/ \E u \in Uploads :
         \/ PostUploadFile(u)
         \/ StartUpload(u)
         \/ PdfParseSettles(u)
         \/ MammothSettles(u)
         \/ UploadAnalyzed(u)
         \/ UploadEnd(u)

SpecUpload == InitUpload /\ [][NextUpload]_vars

-----------------------------------------------------------------------------
(* The App with Drive documents: handleDocumentToggle and analyzeDocuments *)

\* The most documents of a folder.
MaxDriveDocuments == 2

\* The documents listed for the folders: a document has one id, and the
\* document of id 1 is listed under two names (before and after it is
\* renamed).
DriveDocuments ==
    {[id |-> i, name |-> "a"] : i \in 1..MaxDriveDocuments}
        \cup {[id |-> 1, name |-> "b"]}

\* prev.find(doc => doc.id === document.id)
Find(prev, id) == \E i \in 1..Len(prev) : prev[i].id = id

\* prev.filter(doc => doc.id !== document.id)
RECURSIVE FilterOut(_, _)
FilterOut(prev, id) ==
    IF prev = <<>> THEN <<>>
    ELSE IF Head(prev).id = id THEN FilterOut(Tail(prev), id)
    ELSE <<Head(prev)>> \o FilterOut(Tail(prev), id)

\* Mutant of Toggled: the document is appended whether or not it is
\* selected.
ToggledByAppending(prev, doc) == Append(prev, doc)

\* The updater that handleDocumentToggle gives to setSelectedDocuments.
Toggled(prev, doc) ==
    IF Find(prev, doc.id) THEN FilterOut(prev, doc.id)
    ELSE Append(prev, doc)

\* response.data of GET /api/document/:id
DocumentContent(id) == [id |-> id]

\* response.data.results of POST /api/analyze: a result for each document
\* of the body.
ResultsFor(body) == [i \in 1..Len(body) |-> [analysisOf |-> body[i].id]]

\* Mutant of LoopIsOver: the loop ends with the first content.
LoopIsOverAtOnce(call, contents) == Len(contents) >= 1

\* for (const doc of selectedDocuments) has no document left.
LoopIsOver(call, contents) == Len(contents) = Len(call.selection)

NotDrive == <<callVars, serverVars, formatted, appVars, uploadVars>>

\* The checkbox of a document is clicked.
HandleDocumentToggle(doc) ==
    /\ Len(drive.selectedDocuments) < MaxDriveDocuments
         \/ Find(drive.selectedDocuments, doc.id)
    /\ drive' = [drive EXCEPT
                   !.selectedDocuments = Toggled(@, doc)]
    /\ UNCHANGED NotDrive

\* analyzeDocuments is called and runs to its first await: without a
\* selected document it sets the error and returns; otherwise it asks for
\* the content of the first document.
AnalyzeDocuments ==
    /\ drive.call.at = "free"
    /\ ~drive.loading
    /\ drive' =
         IF Len(drive.selectedDocuments) = 0
           THEN [drive EXCEPT
                   !.error = "Please select at least one document to analyze.",
                   !.call = [NoAnalyze EXCEPT !.at = "done"]]
           ELSE [drive EXCEPT
                   !.loading = TRUE,
                   !.error = "null",
                   !.call = [NoAnalyze EXCEPT
                               !.at = "fetching",
                               !.selection = drive.selectedDocuments,
                               !.requested = <<drive.selectedDocuments[1].id>>]]
    /\ UNCHANGED NotDrive

\* GET /api/document/:id is answered: the content is pushed, and the next
\* is asked for or, after the last, POST /api/analyze is sent.
DocumentFetched ==
    LET call     == drive.call
        contents == Append(call.contents,
                           DocumentContent(call.requested[Len(call.requested)]))
    IN  /\ call.at = "fetching"
        /\ drive' =
             IF LoopIsOver(call, contents)
               THEN [drive EXCEPT !.call.at = "posting",
                                  !.call.contents = contents,
                                  !.call.posted = TRUE]
               ELSE [drive EXCEPT
                       !.call.contents = contents,
                       !.call.requested =
                           Append(@, call.selection[Len(contents) + 1].id)]
        /\ UNCHANGED NotDrive

\* The catch and finally blocks of analyzeDocuments.
AnalyzeCaught ==
    [drive EXCEPT !.error = "Failed to analyze documents. Please try again.",
                  !.loading = FALSE,
                  !.call.at = "done"]

\* GET /api/document/:id fails.
DocumentFetchFails ==
    /\ drive.call.at = "fetching"
    /\ drive' = AnalyzeCaught
    /\ UNCHANGED NotDrive

\* POST /api/analyze is answered.
AnalyzeAnswers ==
    /\ drive.call.at = "posting"
    /\ drive' = [drive EXCEPT
                   !.analysisResults = ResultsFor(drive.call.contents),
                   !.loading = FALSE,
                   !.call.at = "done"]
    /\ UNCHANGED NotDrive

\* POST /api/analyze fails.
AnalyzeFails ==
    /\ drive.call.at = "posting"
    /\ drive' = AnalyzeCaught
    /\ UNCHANGED NotDrive

\* analyzeDocuments has returned.
AnalyzeEnd ==
    /\ drive.call.at = "done"
    /\ drive' = [drive EXCEPT !.call = NoAnalyze]
    /\ UNCHANGED NotDrive

InitDrive == InitServer

NextDrive ==
    \/ \E doc \in DriveDocuments : HandleDocumentToggle(doc)
    \/ AnalyzeDocuments
    \/ DocumentFetched
    \/ DocumentFetchFails
    \/ AnalyzeAnswers
    \/ AnalyzeFails
    \/ AnalyzeEnd

SpecDrive == InitDrive /\ [][NextDrive]_vars

-----------------------------------------------------------------------------
(* Properties of the language detector (checked under SpecDetect)          *)

\* detectLanguage has returned.
Detected == pc # "start"

\* analyzeDocument has returned its analysis.
Done == pc = "done"

Content == document.content

\* The number of characters of the text that belong to the set.
CountChars(text, charSet) == Cardinality({i \in 1..Len(text) : text[i] \in charSet})

\* The whitespace-separated tokens of the text, as <<first, last>> positions:
\* the maximal runs of characters that are not whitespace.
TokenSpans(text) ==
    {<<s, CHOOSE e \in s..Len(text) :
            /\ \A i \in s..e : ~IsSpace(text[i])
            /\ (e = Len(text) \/ IsSpace(text[e + 1]))>> :
     s \in {s \in 1..Len(text) :
              ~IsSpace(text[s]) /\ (s = 1 \/ IsSpace(text[s - 1]))}}

\* The number of tokens whose lower-case form is one of the words.
CountTokens(text, words) ==
    Cardinality({sp \in TokenSpans(text) :
                   Includes(words, toLowerCase(SubSeq(text, sp[1], sp[2])))})

\* The languages whose score is the highest.
Highest == {k \in Languages : \A l \in Languages : scores[l] <= scores[k]}

\* The place of a language in the declared order Turkish, German, French,
\* English.
Place(k) == CHOOSE i \in 1..Len(ScoreKeys) : ScoreKeys[i] = k

\* C1 as stated: with some score non-zero, the language returned has the
\* highest score, and among several languages with the highest score it is
\* the one declared FIRST.
C1_TieGoesToFirstDeclared ==
    (Detected /\ \E k \in Languages : scores[k] # 0) =>
        /\ language \in Highest
        /\ \A k \in Highest : Place(language) <= Place(k)

\* C1 amended: with some score non-zero, the language returned has the
\* highest score, and among several languages with the highest score it is
\* the one declared LAST in the order Turkish, German, French, English.
C1_TieGoesToLastDeclared ==
    (Detected /\ \E k \in Languages : scores[k] # 0) =>
        /\ language \in Highest
        /\ \A k \in Highest : Place(k) <= Place(language)

\* Turkish and German tie for the highest score and German is returned.
C1_Witness ==
    /\ Detected
    /\ scores.turkish > 0
    /\ Highest = {"turkish", "german"}
    /\ language = "german"

\* C2 as stated: each of the Turkish, German and French scores is twice the
\* number of characters of the text in the language's diacritic set plus the
\* number of tokens that are common words of the language; English scores 0.
\* Stated for the texts without an ASCII capital, on which the diacritic sets
\* of the code hold letters with diacritics only.
C2_ScoreCountsEveryDiacritic ==
    (Detected /\ CountChars(Content, AsciiUpper) = 0) =>
        scores = [turkish |-> 2 * CountChars(Content, turkishChars)
                                + CountTokens(Content, turkishWords),
                  german  |-> 2 * CountChars(Content, germanChars)
                                + CountTokens(Content, germanWords),
                  french  |-> 2 * CountChars(Content, frenchChars)
                                + CountTokens(Content, frenchWords),
                  english |-> 0]

\* The text has a character of the Turkish set and none of the German or
\* French sets.
OnlyTurkishDiacritics ==
    /\ CountChars(Content, turkishChars) >= 1
    /\ CountChars(Content, germanChars \cup frenchChars) = 0

\* C3 as stated: a text with a Turkish diacritic and no German or French
\* one is analysed as Turkish, whatever common words it holds.  The
\* diacritic is required to be a letter outside ASCII, so that a
\* counterexample does not rest on the capital I of the Turkish set.
C3_TurkishDiacriticIsTurkish ==
    (/\ Done
     /\ OnlyTurkishDiacritics
     /\ CountChars(Content, turkishChars \ AsciiUpper) >= 1)
        => analysis.language = "turkish"

\* C3 amended: a text with a Turkish diacritic and no German or French one
\* is analysed as Turkish when its German common words and its French common
\* words each number fewer than two more than its Turkish common words.
C3_TurkishUnlessOutnumbered ==
    (/\ Done
     /\ OnlyTurkishDiacritics
     /\ CountTokens(Content, germanWords) < 2 + CountTokens(Content, turkishWords)
     /\ CountTokens(Content, frenchWords) < 2 + CountTokens(Content, turkishWords))
        => analysis.language = "turkish"

\* A text with a Turkish letter outside ASCII and a German common word,
\* analysed as Turkish.
C3_Witness ==
    /\ Done
    /\ OnlyTurkishDiacritics
    /\ CountChars(Content, turkishChars \ AsciiUpper) >= 1
    /\ CountTokens(Content, germanWords) = 1
    /\ analysis.language = "turkish"

\* The characters with a code below 128.
AsciiChars ==
    AsciiLower \cup AsciiUpper \cup Digits \cup {"_", " ", ".", ",", "'", "!"}

\* C4 as stated: a text of ASCII characters only (letters of either case
\* included) with no Turkish, German or French common word among its tokens
\* is analysed as English.
C4_AsciiWithoutCommonWordsIsEnglish ==
    (/\ Done
     /\ \A i \in 1..Len(Content) : Content[i] \in AsciiChars
     /\ CountTokens(Content, turkishWords) = 0
     /\ CountTokens(Content, germanWords) = 0
     /\ CountTokens(Content, frenchWords) = 0)
        => analysis.language = "english"

\* C5: detectLanguage returns one of the four languages, for every text.
C5_LanguageIsOneOfFour == Detected => language \in Languages

\* Each of the four languages is returned for some text: here German.
C5_Witness == Detected /\ language = "german" /\ scores.german > scores.french

-----------------------------------------------------------------------------
(* Properties of the checkers (checked under Spec)                         *)

\* C6: analysing the empty string gives English and three empty lists.
C6_EmptyContentIsEnglishAndClean ==
    (Done /\ Content = <<>>) =>
        /\ analysis.language = "english"
        /\ analysis.spellingErrors = <<>>
        /\ analysis.grammarErrors = <<>>
        /\ analysis.styleSuggestions = <<>>

\* The analysis of the empty string has been returned.
C6_Witness == Done /\ Content = <<>> /\ analysis.documentTitle = document.title

\* The tokens of the content that are the word once both are lower-cased.
Occurrences(word) ==
    {sp \in TokenSpans(Content) :
        toLowerCase(SubSeq(Content, sp[1], sp[2])) = toLowerCase(word)}

\* The places of the spelling findings that report the entry.
FindingsFor(entry) ==
    {f \in 1..Len(analysis.spellingErrors) :
        analysis.spellingErrors[f] = [original |-> entry[1], corrected |-> entry[2]]}

\* The entries of the detected language's spelling table.
Entries == spellingPatterns(analysis.language)

C8_OneFindingPerEntry ==
    Done =>
        \A k \in 1..Len(Entries) :
            /\ Cardinality(FindingsFor(Entries[k])) <= 1
            /\ Cardinality(Occurrences(Entries[k][1])) >= 1
                 => Cardinality(FindingsFor(Entries[k])) = 1

\* A misspelling occurs three times and the analysis holds one finding.
C8_Witness ==
    /\ Done
    /\ \E k \in 1..Len(Entries) : Cardinality(Occurrences(Entries[k][1])) = 3
    /\ Len(analysis.spellingErrors) = 1

\* The place at which the table of the language, as written, first declares
\* the misspelling.
DeclaredPlace(lang, word) ==
    CHOOSE i \in 1..Len(spellingLiteral(lang)) :
        /\ spellingLiteral(lang)[i][1] = word
        /\ \A j \in 1..(i - 1) : spellingLiteral(lang)[j][1] # word

RecieveAndSeperate ==
    Join(<< <<"r","e","c","i","e","v","e">>, <<"a","n","d">>,
            <<"s","e","p","e","r","a","t","e">> >>)

SeperateAndRecieve ==
    Join(<< <<"s","e","p","e","r","a","t","e">>, <<"a","n","d">>,
            <<"r","e","c","i","e","v","e">> >>)

RecieveThenSeperate ==
    << [original  |-> <<"r","e","c","i","e","v","e">>,
        corrected |-> <<"r","e","c","e","i","v","e">>],
       [original  |-> <<"s","e","p","e","r","a","t","e">>,
        corrected |-> <<"s","e","p","a","r","a","t","e">>] >>

\* C9: the spelling findings come in the order the table declares their
\* misspellings, whatever their order in the text; and "recieve and
\* seperate" is English with exactly recieve -> receive, seperate -> separate.
C9_FindingsInTableOrder ==
    Done =>
        /\ \A f, g \in 1..Len(analysis.spellingErrors) :
             f < g => DeclaredPlace(analysis.language, analysis.spellingErrors[f].original)
                        < DeclaredPlace(analysis.language, analysis.spellingErrors[g].original)
        /\ Content = RecieveAndSeperate =>
             /\ analysis.language = "english"
             /\ analysis.spellingErrors = RecieveThenSeperate

\* "seperate and recieve": the findings are still recieve, then seperate.
C9_Witness ==
    /\ Done
    /\ Content = SeperateAndRecieve
    /\ analysis.spellingErrors = RecieveThenSeperate

\* The literal stands at position s of the text, ignoring case.
StandsAt(text, s, literal) ==
    /\ s >= 1
    /\ s + Len(literal) - 1 <= Len(text)
    /\ \A k \in 1..Len(literal) : SameCharIgnoreCase(text[s + k - 1], literal[k])

\* The start of the run of \w characters that ends at position i.
RunStart(text, i) ==
    CHOOSE r \in 1..i :
        /\ \A j \in r..i : IsWordChar(text[j])
        /\ (r = 1 \/ ~IsWordChar(text[r - 1]))

\* Where the rule matches in the text, as <<first, last>> positions, stated
\* without the matcher.  A suffix rule matches where an alternative, ignoring
\* case, follows a \w character and is followed by a whitespace character or
\* the end of the text: the match runs from the start of the run of \w
\* characters before the alternative to that whitespace character.  A word
\* rule matches where an alternative stands with no \w character on either
\* side.
RuleSpans(text, rule) ==
    UNION {
      LET n == Len(rule.alts[a])
      IN  IF rule.kind = "suffix"
            THEN {<<RunStart(text, s - 1),
                    IF s + n - 1 = Len(text) THEN s + n - 1 ELSE s + n>> :
                  s \in {s \in 2..Len(text) :
                           /\ StandsAt(text, s, rule.alts[a])
                           /\ IsWordChar(text[s - 1])
                           /\ (s + n - 1 = Len(text) \/ IsSpace(text[s + n]))}}
            ELSE {<<s, s + n - 1>> :
                  s \in {s \in 1..Len(text) :
                           /\ StandsAt(text, s, rule.alts[a])
                           /\ (s = 1 \/ ~IsWordChar(text[s - 1]))
                           /\ (s + n - 1 = Len(text) \/ ~IsWordChar(text[s + n]))}}
      : a \in 1..Len(rule.alts) }

\* The spans from left to right.
RECURSIVE InTextOrder(_)
InTextOrder(spans) ==
    IF spans = {} THEN <<>>
    ELSE LET first == CHOOSE sp \in spans : \A o \in spans : sp[1] <= o[1]
         IN  <<first>> \o InTextOrder(spans \ {first})

\* What the findings of the rules must say: for each rule in declaration
\* order, for each of its matches from left to right, the matched text and
\* the rule's explanation.
RECURSIVE ExpectedGrammar(_, _)
ExpectedGrammar(text, rules) ==
    IF rules = <<>> THEN <<>>
    ELSE LET spans == InTextOrder(RuleSpans(text, Head(rules)))
         IN  [k \in 1..Len(spans) |->
                [original    |-> SubSeq(text, spans[k][1], spans[k][2]),
                 explanation |-> Head(rules).explanation]]
             \o ExpectedGrammar(text, Tail(rules))

\* C10: the grammar findings are as many as the matches of all the rules of
\* the detected language in the text; they are grouped by rule in
\* declaration order, and the original of each is the text matched.
C10_OneGrammarFindingPerMatch ==
    Done =>
        LET expected == ExpectedGrammar(Content, grammarPatterns(analysis.language))
        IN  /\ Len(analysis.grammarErrors) = Len(expected)
            /\ \A k \in 1..Len(expected) :
                 /\ analysis.grammarErrors[k].original = expected[k].original
                 /\ analysis.grammarErrors[k].explanation = expected[k].explanation

\* Turkish text in which the first rule matches twice and the second once:
\* three findings, the first rule's two first.
C10_Witness ==
    /\ Done
    /\ analysis.language = "turkish"
    /\ Len(analysis.grammarErrors) = 3
    /\ analysis.grammarErrors[1].explanation = turkishGrammar[1].explanation
    /\ analysis.grammarErrors[2].explanation = turkishGrammar[1].explanation
    /\ analysis.grammarErrors[3].explanation = turkishGrammar[2].explanation


-----------------------------------------------------------------------------
(* Properties of the corrected text of grammar findings (checked under     *)
(* Spec)                                                                   *)

\* Where an alternative of a suffix rule stands as a match requires it:
\* after a \w character and before a whitespace character or the end.
AltStarts(text, rule) ==
    {s \in 2..Len(text) :
        \E a \in 1..Len(rule.alts) :
            /\ StandsAt(text, s, rule.alts[a])
            /\ IsWordChar(text[s - 1])
            /\ (s + Len(rule.alts[a]) - 1 = Len(text)
                  \/ IsSpace(text[s + Len(rule.alts[a])]))}

\* The whole text with the rule's replacement applied, stated without the
\* matcher: a suffix rule ('$1 $2$3') puts a space before every alternative
\* that stands as AltStarts says; the word rule writes "it's" for a span
\* that reads "its" in lower case and "its" for any other span.  marks are
\* the alternatives' positions (suffix rule) or the spans (word rule).
RECURSIVE RewrittenFrom(_, _, _, _)
RewrittenFrom(text, rule, marks, i) ==
    IF i > Len(text) THEN <<>>
    ELSE IF rule.kind = "suffix"
      THEN (IF i \in marks THEN <<" ">> ELSE <<>>)
           \o <<text[i]>> \o RewrittenFrom(text, rule, marks, i + 1)
      ELSE LET here == {sp \in marks : sp[1] = i}
           IN  IF here = {} THEN <<text[i]>> \o RewrittenFrom(text, rule, marks, i + 1)
               ELSE LET sp == CHOOSE sp \in here : TRUE
                    IN  (IF toLowerCase(SubSeq(text, sp[1], sp[2])) = <<"i","t","s">>
                           THEN <<"i","t","'","s">>
                           ELSE <<"i","t","s">>)
                        \o RewrittenFrom(text, rule, marks, sp[2] + 1)

Rewritten(text, rule) ==
    RewrittenFrom(text, rule,
                  IF rule.kind = "suffix" THEN AltStarts(text, rule)
                                          ELSE RuleSpans(text, rule),
                  1)

\* The rules of the detected language, as indices into grammarPatterns.
RuleIndices == 1..Len(grammarPatterns(analysis.language))

GrammarRule(r) == grammarPatterns(analysis.language)[r]

\* The findings that carry the explanation of rule r, as indices into
\* analysis.grammarErrors (the explanations of one language are distinct).
FindingsOfRule(r) ==
    {k \in 1..Len(analysis.grammarErrors) :
        analysis.grammarErrors[k].explanation = GrammarRule(r).explanation}

\* C11: when a grammar rule matches twice in the document, exactly two
\* findings are produced for it, and both carry the same corrected value:
\* the whole document with the rule's replacement applied at every match.
C11_TwoMatchesShareWholeTextCorrection ==
    Done =>
        \A r \in RuleIndices :
            Cardinality(RuleSpans(Content, GrammarRule(r))) = 2 =>
                /\ Cardinality(FindingsOfRule(r)) = 2
                /\ \A k \in FindingsOfRule(r) :
                     analysis.grammarErrors[k].corrected
                       = Rewritten(Content, GrammarRule(r))

\* "its its": two findings, both corrected to "it's it's".
C11_Witness ==
    /\ Done
    /\ Content = <<"i","t","s"," ","i","t","s">>
    /\ Len(analysis.grammarErrors) = 2
    /\ analysis.grammarErrors[1].original = <<"i","t","s">>
    /\ analysis.grammarErrors[1].corrected = <<"i","t","'","s"," ","i","t","'","s">>
    /\ analysis.grammarErrors[2].corrected = analysis.grammarErrors[1].corrected

\* Some other rule of the language matches the document too.
OtherRulesMatching(r) ==
    {o \in RuleIndices \ {r} : RuleSpans(Content, GrammarRule(o)) # {}}

\* C12: the corrected text of every grammar finding is the original
\* document rewritten by the finding's own rule alone; when another rule of
\* the language matches the document too, the corrected text is not that of
\* the two rules applied one after the other, in either order.
C12_CorrectedAppliesOwnRuleOnly ==
    Done =>
        \A r \in RuleIndices : \A k \in FindingsOfRule(r) :
            LET corrected == analysis.grammarErrors[k].corrected
            IN  /\ corrected = Rewritten(Content, GrammarRule(r))
                /\ \A o \in OtherRulesMatching(r) :
                     /\ corrected # Rewritten(Rewritten(Content, GrammarRule(o)),
                                              GrammarRule(r))
                     /\ corrected # Rewritten(Rewritten(Content, GrammarRule(r)),
                                              GrammarRule(o))

\* "gelm(i-dotless) evde": each Turkish rule matches once; the first rule's
\* corrected text leaves "evde" alone, the second's leaves the first word.
C12_Witness ==
    /\ Done
    /\ analysis.language = "turkish"
    /\ Content = <<"g","e","l","m","i-dotless"," ","e","v","d","e">>
    /\ Len(analysis.grammarErrors) = 2
    /\ analysis.grammarErrors[1].corrected
         = <<"g","e","l"," ","m","i-dotless"," ","e","v","d","e">>
    /\ analysis.grammarErrors[2].corrected
         = <<"g","e","l","m","i-dotless"," ","e","v"," ","d","e">>


-----------------------------------------------------------------------------
(* Properties of the style checker (checked under SpecStyle)               *)

StyleRules == stylePatterns(analysis.language)

\* Where the phrase of style rule r stands in the document, ignoring case.
PhrasePlaces(r) ==
    {p \in 1..Len(Content) : StandsAt(Content, p, StyleRules[r].pattern)}

\* The style rules of the detected language whose phrase occurs.
OccurringRules == {r \in 1..Len(StyleRules) : PhrasePlaces(r) # {}}

\* The k-th of the occurring rules in declaration order.
OccurringRule(k) ==
    CHOOSE r \in OccurringRules :
        Cardinality({o \in OccurringRules : o <= r}) = k

\* The leftmost occurrence of the phrase of rule r, as the document spells it.
FirstOccurrence(r) ==
    LET p == CHOOSE p \in PhrasePlaces(r) : \A q \in PhrasePlaces(r) : p <= q
    IN  SubSeq(Content, p, p + Len(StyleRules[r].pattern) - 1)

\* C13: the style suggestions are one for each style rule of the detected
\* language whose phrase occurs in the document, in rule declaration order;
\* the original of each is the first occurrence of the phrase; a rule whose
\* phrase does not occur has no suggestion.
C13_OneSuggestionPerOccurringRule ==
    Done =>
        /\ Len(analysis.styleSuggestions) = Cardinality(OccurringRules)
        /\ \A k \in 1..Len(analysis.styleSuggestions) :
             /\ analysis.styleSuggestions[k].suggestion
                  = StyleRules[OccurringRule(k)].suggestion
             /\ analysis.styleSuggestions[k].original
                  = FirstOccurrence(OccurringRule(k))

\* The second English phrase in upper case, the first English phrase, the
\* second phrase again: two suggestions, the first rule's first, and the
\* second rule's original in upper case.
C13_Witness ==
    /\ Done
    /\ analysis.language = "english"
    /\ Content = <<"N","O","T"," ","B","A","D"," ","O","V","E","R","A",
                  "L","L"," ","v","e","r","y"," ","g","o","o","d"," ",
                  "b","e","c","a","u","s","e"," ","i","t"," ","w","o",
                  "r","k","s"," ","f","a","s","t"," ","n","o","t"," ",
                  "b","a","d"," ","o","v","e","r","a","l","l">>
    /\ Len(analysis.styleSuggestions) = 2
    /\ analysis.styleSuggestions[1].suggestion = englishStyle[1].suggestion
    /\ analysis.styleSuggestions[2].suggestion = englishStyle[2].suggestion
    /\ analysis.styleSuggestions[2].original
         = <<"N","O","T"," ","B","A","D"," ","O","V","E","R","A","L","L">>


-----------------------------------------------------------------------------
(* Properties of the server (checked under SpecServer and SpecConcurrent)  *)

\* The document is an object whose content is a string.
HasText(doc) == ~doc.isNull /\ doc.content.type = "string"

\* No spelling entry, grammar rule or style rule of the language matches
\* the text: no token is an incorrect form in lower case, no rule has a
\* span, no phrase stands anywhere.
Unmatched(text, lang) ==
    /\ \A e \in 1..Len(spellingPatterns(lang)) :
         \A sp \in TokenSpans(text) :
            toLowerCase(SubSeq(text, sp[1], sp[2]))
              # toLowerCase(spellingPatterns(lang)[e][1])
    /\ \A r \in 1..Len(grammarPatterns(lang)) :
         RuleSpans(text, grammarPatterns(lang)[r]) = {}
    /\ \A r \in 1..Len(stylePatterns(lang)) :
         \A p \in 1..Len(text) : ~StandsAt(text, p, stylePatterns(lang)[r].pattern)

\* The document has a text in which nothing of its detected language matches.
Clean(doc) ==
    HasText(doc) /\ Unmatched(doc.content.chars, detectLanguage(doc.content.chars))

NoFindings(result) ==
    /\ result.spellingErrors = <<>>
    /\ result.grammarErrors = <<>>
    /\ result.styleSuggestions = <<>>

\* C14: for a content in which no spelling entry, grammar rule or style rule
\* of the detected language matches, the analysis has its three finding
\* lists empty, and the analyzer throws nothing for the facade to catch.
C14_NoMatchGivesEmptyListsAndNoException ==
    \A h \in Handlers :
        /\ \A i \in 1..Len(handlers[h].results) :
             Clean(handlers[h].documents[i]) =>
                /\ handlers[h].results[i].language
                     = detectLanguage(handlers[h].documents[i].content.chars)
                /\ NoFindings(handlers[h].results[i])
        /\ handlers[h].at \in {"catch", "failed"} => ~Clean(Current(handlers[h]))

\* The document "and" has been analyzed: English, nothing found.
C14_Witness ==
    \E h \in Handlers :
        /\ handlers[h].at = "responded"
        /\ handlers[h].status = 200
        /\ handlers[h].documents
             = <<Object(String(<<"D">>), String(<<"a","n","d">>))>>
        /\ handlers[h].results
             = << [documentTitle |-> String(<<"D">>), language |-> "english",
                   spellingErrors |-> <<>>, grammarErrors |-> <<>>,
                   styleSuggestions |-> <<>>] >>

\* C15 as stated: the facade never throws; for every document it gives its
\* caller a result with the title of the document and a language, and with
\* empty lists when the analyzer has thrown.
C15_FacadeNeverThrows ==
    \A h \in Handlers :
        /\ handlers[h].at # "failed"
        /\ handlers[h].status # 500
        /\ handlers[h].at = "resume" =>
             /\ handlers[h].analysis.documentTitle = Current(handlers[h]).title
             /\ handlers[h].analysis.language # ""
             /\ Throws(Current(handlers[h])) => NoFindings(handlers[h].analysis)

\* C16: two analyses of the same {title, content} on the one analyzer
\* instance, with other analyses in between, give identical results.
C16_SameDocumentSameResult ==
    \A h \in Handlers :
        \A i, j \in 1..Len(handlers[h].results) :
            handlers[h].documents[i] = handlers[h].documents[j]
                => handlers[h].results[i] = handlers[h].results[j]

\* "its its", the Turkish document, "its its" again: the first and the third
\* result are the same, with two grammar findings.
C16_Witness ==
    \E h \in Handlers :
        /\ handlers[h].at = "responded"
        /\ Len(handlers[h].results) = 3
        /\ handlers[h].documents[1].content
             = String(<<"i","t","s"," ","i","t","s">>)
        /\ handlers[h].documents[3] = handlers[h].documents[1]
        /\ handlers[h].documents[2] # handlers[h].documents[1]
        /\ handlers[h].results[2].grammarErrors # <<>>
        /\ Len(handlers[h].results[1].grammarErrors) = 2
        /\ handlers[h].results[3] = handlers[h].results[1]

\* What the facade returns for the document when the call runs alone on a
\* newly constructed analyzer.
Alone(doc) ==
    IF Throws(doc) THEN Fallback(doc)
    ELSE LET started == StartAnalysis(doc, Constructor)
             lang    == started.language
         IN  [started EXCEPT
                !.grammarErrors =
                    GrammarOutcome(doc.content.chars,
                                   Constructor[lang].grammarPatterns).grammarErrors,
                !.styleSuggestions = StyleFindings(doc.content.chars, lang)]

\* C17: with several calls in flight on the shared instance, interleaved at
\* their awaits, each call returns what it returns when run alone.
C17_InterleavedCallsReturnAsAlone ==
    \A h \in Handlers :
        /\ handlers[h].at = "resume" =>
             handlers[h].analysis = Alone(Current(handlers[h]))
        /\ (handlers[h].at = "responded" /\ handlers[h].status = 200) =>
             handlers[h].results = <<Alone(handlers[h].documents[1])>>

\* Two calls on different documents are in flight at once, one about to
\* return its grammar findings while the other is past its grammar step.
C17_Witness ==
    \E h, g \in Handlers :
        /\ h # g
        /\ handlers[h].at = "resume"
        /\ handlers[h].analysis.grammarErrors # <<>>
        /\ handlers[g].at = "style"
        /\ handlers[g].analysis.grammarErrors # <<>>
        /\ handlers[g].documents # handlers[h].documents


\* C18 (checked under SpecStyle): every spelling finding is an entry of the
\* spelling table of the language the result reports, every grammar finding
\* carries the explanation of a grammar rule of that language, and every
\* style suggestion is that of a style rule of that language whose phrase
\* its original spells.
C18_FindingsFromReportedLanguage ==
    Done =>
        /\ \A k \in 1..Len(analysis.spellingErrors) :
             \E e \in 1..Len(spellingPatterns(analysis.language)) :
                analysis.spellingErrors[k]
                  = [original  |-> spellingPatterns(analysis.language)[e][1],
                     corrected |-> spellingPatterns(analysis.language)[e][2]]
        /\ \A k \in 1..Len(analysis.grammarErrors) :
             \E r \in 1..Len(grammarPatterns(analysis.language)) :
                analysis.grammarErrors[k].explanation
                  = grammarPatterns(analysis.language)[r].explanation
        /\ \A k \in 1..Len(analysis.styleSuggestions) :
             \E r \in 1..Len(stylePatterns(analysis.language)) :
                /\ analysis.styleSuggestions[k].suggestion
                     = stylePatterns(analysis.language)[r].suggestion
                /\ StandsAt(analysis.styleSuggestions[k].original, 1,
                            stylePatterns(analysis.language)[r].pattern)

\* An English result with a spelling finding, a grammar finding and a style
\* suggestion.
C18_Witness ==
    /\ Done
    /\ analysis.language = "english"
    /\ Content = <<"r","e","c","i","e","v","e"," ","i","t","s"," ",
                 "n","o","t"," ","b","a","d"," ","o","v","e","r","a","l","l">>
    /\ Len(analysis.spellingErrors) = 1
    /\ Len(analysis.grammarErrors) = 1
    /\ Len(analysis.styleSuggestions) = 1

\* C19 as stated: POST /api/analyze with an array of n documents answers
\* with n results, the i-th carrying the title of the i-th document.
C19_OneResultPerDocument ==
    \A h \in Handlers :
        (handlers[h].at = "responded" /\ handlers[h].endpoint = "analyze"
           /\ handlers[h].status # 400) =>
            /\ handlers[h].status = 200
            /\ Len(handlers[h].results) = Len(handlers[h].documents)
            /\ \A i \in 1..Len(handlers[h].documents) :
                 handlers[h].results[i].documentTitle
                   = handlers[h].documents[i].title

\* C20: no step of an analysis changes the pattern tables, which stay as
\* the constructor built them (the position of every regular expression
\* included), nor the documents of a request.
C20_TablesAndDocumentsUnchanged ==
    /\ [](languagePatterns = Constructor)
    /\ [][\A h \in Handlers :
            (handlers[h].at # "idle" /\ handlers'[h].at # "idle")
                => handlers'[h].documents = handlers[h].documents]_vars

\* A request whose three documents have all had their grammar analyzed has
\* been answered, and the tables are as constructed.
C20_Witness ==
    /\ languagePatterns = Constructor
    /\ \E h \in Handlers :
         /\ handlers[h].at = "responded"
         /\ Len(handlers[h].results) = 3
         /\ \A i \in 1..3 : handlers[h].results[i].grammarErrors # <<>>


-----------------------------------------------------------------------------
(* Properties of formatAnalysisResult (checked under SpecFormat)           *)

\* The places of the lines with the given text.
LinesWith(text) == {i \in 1..Len(formatted) : formatted[i].text = text}

\* C21: the result starts and ends with the only two "---" lines, with the
\* title and the language between them; each section header is there if and
\* only if its list is non-empty, and the "No issues found" line if and only
\* if the three lists are empty.
C21_SectionsFollowTheLists ==
    pc = "formatted" =>
        /\ LinesWith("---") = {1, Len(formatted)}
        /\ Len(formatted) > 4
        /\ formatted[2] = Line("Document Title: {}", <<analysis.documentTitle>>)
        /\ formatted[4] = Line("Language: {}", <<analysis.language>>)
        /\ LinesWith("### Spelling Errors") # {}
             <=> analysis.spellingErrors # <<>>
        /\ LinesWith("### Grammar Errors") # {}
             <=> analysis.grammarErrors # <<>>
        /\ LinesWith("### Style Suggestions (Optional)") # {}
             <=> analysis.styleSuggestions # <<>>
        /\ LinesWith("No issues found! Your document looks great.") # {}
             <=> /\ analysis.spellingErrors = <<>>
                 /\ analysis.grammarErrors = <<>>
                 /\ analysis.styleSuggestions = <<>>

\* A result with a style section only.
C21_Witness ==
    /\ pc = "formatted"
    /\ analysis.spellingErrors = <<>>
    /\ analysis.grammarErrors = <<>>
    /\ Len(analysis.styleSuggestions) = 2
    /\ Len(formatted) = 13
    /\ LinesWith("### Style Suggestions (Optional)") = {6}
    /\ LinesWith("No issues found! Your document looks great.") = {}


-----------------------------------------------------------------------------
(* Properties of POST /api/analyze-demo (checked under SpecConcurrent)     *)

\* The value is a string with a character in it.
NonEmpty(value) == value.type = "string" /\ value.chars # <<>>

\* The body has no such property, or an empty string for it.
MissingOrEmpty(value) ==
    value.type = "undefined" \/ (value.type = "string" /\ value.chars = <<>>)

\* C22: a demo request with a non-empty title and a non-empty content is
\* answered with one analysis result whose language is set; one whose title
\* or content is missing or empty is answered 400, straight from its receipt
\* with no step of an analysis in between.
C22_DemoAnswersOneResultOr400 ==
    /\ [](\A h \in Handlers :
            handlers[h].at = "responded" =>
              LET body == handlers[h].documents[1]
              IN  /\ (NonEmpty(body.title) /\ NonEmpty(body.content)) =>
                        /\ handlers[h].status = 200
                        /\ Len(handlers[h].results) = 1
                        /\ handlers[h].results[1].language
                             \in Languages \cup {"Turkish", "English",
                                                 "German", "French"}
                  /\ (MissingOrEmpty(body.title) \/ MissingOrEmpty(body.content)) =>
                        /\ handlers[h].status = 400
                        /\ handlers[h].results = <<>>)
    /\ [][\A h \in Handlers :
            (handlers'[h].status = 400 /\ handlers[h].status # 400) =>
                /\ handlers[h].at = "idle"
                /\ languagePatterns' = languagePatterns]_vars

\* One request has been refused for its empty title while another, with a
\* title and a content, has its result.
C22_Witness ==
    \E h, g \in Handlers :
        /\ handlers[h].at = "responded"
        /\ handlers[h].status = 400
        /\ handlers[h].documents[1].title = String(<<>>)
        /\ NonEmpty(handlers[h].documents[1].content)
        /\ handlers[g].at = "responded"
        /\ handlers[g].status = 200
        /\ handlers[g].results[1].language = "english"
        /\ handlers[g].results[1].spellingErrors # <<>>


-----------------------------------------------------------------------------
(* Properties of the client's App component (checked under SpecApp and     *)
(* SpecAppSettles)                                                         *)

\* C23 as stated: whenever GET /api/health is answered with the body the
\* server sends, checkConnection sets isConnected to true.
C23_HealthAnswerConnects ==
    [][\A c \in Invocations :
         (/\ calls[c].at = "health"
          /\ calls'[c].at = "done"
          /\ calls'[c].answer = HealthOfServer.status)
            => app'.isConnected]_vars

\* The call is suspended at one of its awaits.
InFlight(c) == calls[c].at \notin {"free", "done"}

\* C28: every call of checkConnection, checkGoogleDriveAuth,
\* authorizeGoogleDrive and fetchFolders whose requests settle returns with
\* its loading flag set to false.
C28_LoadingFlagIsReset ==
    \A c \in Invocations :
        InFlight(c) ~> (/\ calls[c].at = "done"
                        /\ ~app[LoadingFlag(calls[c].fn)])

\* authorizeGoogleDrive has returned from inside its try block, after the
\* answer of /api/auth/google that was not ok, and authLoading is false.
C28_Witness ==
    \E c \in Invocations :
        /\ calls[c].fn = "authorizeGoogleDrive"
        /\ calls[c].at = "done"
        /\ app.error = "Failed to start Google Drive authorization"
        /\ ~app.authLoading


-----------------------------------------------------------------------------
(* Properties of the FileUploader component (checked under SpecUploader)   *)

\* The file is a PDF, DOCX, DOC or TXT file of at most 10 MB.
AllowedAndSmall(file) ==
    /\ file.type \in {"application/pdf",
                      "application/vnd.openxmlformats-officedocument.wordprocessingml.document",
                      "application/msword",
                      "text/plain"}
    /\ file.size <= 10485760

\* C25: uploadedFile is null or a file of an allowed type and of at most
\* 10 MB, and so is the file of a request sent to /api/upload-file.
C25_OnlyAllowedFilesStoredOrSent ==
    /\ uploader.uploadedFile = NoFile \/ AllowedAndSmall(uploader.uploadedFile)
    /\ uploader.request = NoFile \/ AllowedAndSmall(uploader.request)

\* A text file of exactly 10 MB is on its way to the server, and the file
\* dropped after it, one byte larger, has been refused.
C25_Witness ==
    /\ uploader.request = File("file", "text/plain", 10485760, "text")
    /\ uploader.uploadedFile = uploader.request
    /\ uploader.error = "File too large. Maximum size is 10MB."


-----------------------------------------------------------------------------
(* Properties of POST /api/upload-file (checked under SpecUpload)          *)

\* C24: when the handler of a request whose file was stored answers (200,
\* 400 or 500), the file that the request has written is no longer in the
\* uploads directory.
C24_StoredFileIsGoneAtTheAnswer ==
    [][\A u \in Uploads :
         (/\ uploadServer.requests[u].at # "responded"
          /\ uploadServer'.requests[u].at = "responded"
          /\ uploadServer'.requests[u].stored)
            => u \notin uploadServer'.dir[uploadServer'.requests[u].path].writers]_vars

\* The three answers after a stored file, the directory empty: a request
\* has its analysis, another is answered 400 for a blank text file.
C24_Witness ==
    \E u, v \in Uploads :
        /\ uploadServer.requests[u].at = "responded"
        /\ uploadServer.requests[u].stored
        /\ uploadServer.requests[u].status = 200
        /\ uploadServer.requests[v].at = "responded"
        /\ uploadServer.requests[v].stored
        /\ uploadServer.requests[v].status = 400
        /\ \A path \in Paths : uploadServer.dir[path] = Absent


-----------------------------------------------------------------------------
(* Properties of the App with Drive documents (checked under SpecDrive)    *)

\* The ids of the documents of a list.
Ids(list) == {list[i].id : i \in 1..Len(list)}

\* The contents of the documents of a list, in its order.
ContentsOf(list) == [i \in 1..Len(list) |-> DocumentContent(list[i].id)]

\* The sequence is the beginning of the other.
IsPrefix(short, long) ==
    /\ Len(short) <= Len(long)
    /\ \A i \in 1..Len(short) : short[i] = long[i]

\* C26: analyzeDocuments asks for the contents in selection order and has
\* sent POST /api/analyze only with the contents of all the selected
\* documents, in that order; called without a selected document, or when a
\* content request fails, it ends without having sent it, leaves
\* analysisResults as it was and sets an error message.
C26_AnalyzeOnlyAfterEveryContent ==
    /\ [](LET call == drive.call
          IN  /\ IsPrefix(call.requested,
                          [i \in 1..Len(call.selection) |-> call.selection[i].id])
              /\ IsPrefix(call.contents, ContentsOf(call.selection))
              /\ Len(call.contents) <= Len(call.requested)
              /\ call.posted =>
                   /\ call.selection # <<>>
                   /\ call.contents = ContentsOf(call.selection))
    /\ [][(AnalyzeDocuments /\ drive.selectedDocuments = <<>>)
             \/ DocumentFetchFails
            => /\ drive'.call.at = "done"
               /\ ~drive'.call.posted
               /\ drive'.analysisResults = drive.analysisResults
               /\ drive'.error # "null"]_vars

\* After a call that had its analysis, a call with two selected documents
\* has ended on the failure of the second content request.
C26_Witness ==
    /\ drive.call.at = "done"
    /\ ~drive.call.posted
    /\ Len(drive.call.selection) = 2
    /\ Len(drive.call.requested) = 2
    /\ Len(drive.call.contents) = 1
    /\ drive.analysisResults # <<>>
    /\ drive.error = "Failed to analyze documents. Please try again."

\* C27: selectedDocuments never holds two documents of one id; a call of
\* handleDocumentToggle flips the id of its document in the set of selected
\* ids and no other, so that a second call with a document of that id gives
\* back the set of selected ids.
C27_ToggleFlipsOneId ==
    /\ [](LET selected == drive.selectedDocuments
          IN  /\ \A i, j \in 1..Len(selected) :
                    selected[i].id = selected[j].id => i = j
              /\ \A doc, again \in DriveDocuments :
                    doc.id = again.id =>
                        Ids(Toggled(Toggled(selected, doc), again))
                            = Ids(selected))
    /\ [][\A doc \in DriveDocuments :
             HandleDocumentToggle(doc) =>
                Ids(drive'.selectedDocuments) =
                    IF doc.id \in Ids(drive.selectedDocuments)
                      THEN Ids(drive.selectedDocuments) \ {doc.id}
                      ELSE Ids(drive.selectedDocuments) \cup {doc.id}]_vars

\* Two documents are selected, the renamed document after the other.
C27_Witness ==
    /\ Len(drive.selectedDocuments) = 2
    /\ drive.selectedDocuments[2] = [id |-> 1, name |-> "b"]


-----------------------------------------------------------------------------
(* Properties of the spelling tables (checked under SpecSpelling)          *)

\* C29 as stated: every spelling finding of an analysis has a corrected
\* value different from its original value.
C29_FindingsAreCorrections ==
    Done =>
        \A i \in 1..Len(analysis.spellingErrors) :
            analysis.spellingErrors[i].corrected
                # analysis.spellingErrors[i].original

=============================================================================
